---- MODULE Spec2Model ----
(***************************************************************************)
(* A model of the expectation-propagation core of autofit.graphical:       *)
(* optimise.py (OptFactor, find_factor_mode, laplace_factor_approx,         *)
(* LaplaceOptimiser, lstsq_laplace_factor_approx) and the parts of utils.py *)
(* it uses (Status, FlattenArrays, OptResult, propagate_uncertainty); of    *)
(* the numerical helpers of utils.py (invpsilog, inv_beta_suffstats); and   *)
(* of the identifier machinery: IdentifierField, AbstractPaths.identifier,  *)
(* Assertion and update_directory_identifiers.                              *)
(*                                                                          *)
(* Numeric values are tagged records: a plain Python scalar is             *)
(* [kind "scalar", shape <<>>, data <<v>>], a numpy array is               *)
(* [kind "array", shape, data] with data in row-major order.  A dict is a   *)
(* function; an ordered dict is a key sequence plus a function.  An         *)
(* optional value is a sequence of length 0 (None) or 1.                    *)
(***************************************************************************)
EXTENDS Integers, Sequences, FiniteSets, TLC

VARIABLES
    \* ---- the mode finder (OptFactor / find_factor_mode) ----
    opt,        \* <<>> or <<the OptFactor object the caller holds>>
    call,       \* the last call made on the mode finder and its inputs
    out,        \* its outcome: the exception raised or the value returned
    \* ---- the EP loop (LaplaceOptimiser, *_factor_approx) ----
    heap,       \* object id -> the messages of that MeanFieldApproximation
    history,    \* LaplaceOptimiser.history: <<i, factor>> -> object id
    cfg,        \* LaplaceOptimiser's n_iter, delta, opt_kws
    pc,         \* where the caller / LaplaceOptimiser.run is
    run,        \* the locals of run and of the step generator it drives
    last,       \* the last factor-update call made, with its outcome
    nupdates,   \* the factor updates completed by the current run
    \* ---- a FlattenArrays object and the calls made on it ----
    fobj,       \* <<>> or <<the FlattenArrays object the caller holds>>
    fcall,      \* the last call made on it, with its inputs and outcome
    \* ---- the numerical helpers of utils.py ----
    ncall,      \* the last helper called, with its inputs and outcome
    \* ---- objects whose identifier is cached (IdentifierField owners,
    \*      AbstractPaths) ----
    owner,      \* object id -> its field values and its cached _identifier
    icall,      \* the last access made to an object, with its outcome
    \* ---- an Assertion and its caller ----
    acall,      \* the last Assertion called, with arg_dict and the outcome
    \* ---- update_directory_identifiers ----
    disk,       \* the file system: directory -> the names of its entries
    upd,        \* the locals of update_directory_identifiers
    \* ---- ModelObject ----
    idcount,    \* ModelObject._ids: the value next() gives next
    objects,    \* the objects constructed so far, in construction order
    mcall       \* the last comparison or hash taken, with its outcome

optvars  == <<opt, call, out>>
epvars   == <<heap, history, cfg, pc, run, last, nupdates>>
flatvars == <<fobj, fcall>>
numvars  == <<ncall>>
idvars   == <<owner, icall>>
assertvars == <<acall>>
dirvars  == <<disk, upd>>
modelvars == <<idcount, objects, mcall>>
libvars  == <<flatvars, numvars, idvars, assertvars, dirvars, modelvars>>
vars     == <<opt, call, out, heap, history, cfg, pc, run, last, nupdates,
              fobj, fcall, ncall, owner, icall, acall, disk, upd,
              idcount, objects, mcall>>

-----------------------------------------------------------------------------
(* Bounds of the model *)

\* array entries handed in by the caller or the solver range over 0..MaxVal
MaxVal == 1
\* the solver reports 1..MaxNit iterations
MaxNit == 2
\* LaplaceOptimiser.n_iter ranges over 0..MaxIter
MaxIter == 2
\* at most MaxApprox MeanFieldApproximation objects are allocated
MaxApprox == 2
\* the arrays handed to propagate_uncertainty have at most MaxRank axes
MaxRank == 4

-----------------------------------------------------------------------------
(* numpy values *)

Scalar(v) == [kind |-> "scalar", shape |-> <<>>, data |-> <<v>>]

Array(shape, data) == [kind |-> "array", shape |-> shape, data |-> data]

RECURSIVE Prod(_)
Prod(s) == IF s = <<>> THEN 1 ELSE Head(s) * Prod(Tail(s))

RECURSIVE Repeat(_, _)
Repeat(b, n) == IF n = 0 THEN <<>> ELSE <<b>> \o Repeat(b, n - 1)

Range(s) == {s[i] : i \in 1..Len(s)}

Min(a, b) == IF a < b THEN a ELSE b

\* d1.update(d2) / {**d1, **d2}: the entries of d2 win
Update(d1, d2) == [k \in DOMAIN d1 \cup DOMAIN d2 |->
                      IF k \in DOMAIN d2 THEN d2[k] ELSE d1[k]]

EmptyDict == [k \in {} |-> 0]

\* every sequence over S of length n
SeqsOf(S, n) == [1..n -> S]

\* a value of the given shape whose entries are all v
Fill(shape, v) ==
    IF shape = <<>> THEN Scalar(v) ELSE Array(shape, Repeat(v, Prod(shape)))

-----------------------------------------------------------------------------
(* utils.py: Status *)

Status(success, messages) == [success |-> success, messages |-> messages]

StatusDefault == Status(TRUE, <<>>)

\* one entry of a Status's message trace
Message(src, nfev, nit, status, message) ==
    [src |-> src, nfev |-> nfev, nit |-> nit, status |-> status,
     message |-> message]

-----------------------------------------------------------------------------
(* utils.py: FlattenArrays, a dict of shapes in registration order *)

\* np.cumsum of the element counts of the first i shapes
RECURSIVE cumsum(_, _, _)
cumsum(keys, shps, i) ==
    IF i = 0 THEN 0 ELSE cumsum(keys, shps, i - 1) + Prod(shps[keys[i]])

\* __init__: the dict itself (keys in registration order, shapes) and the
\* attributes splits, inds and sizes computed from it once
FlattenArrays(keys, shps) ==
    [keys   |-> keys,
     shapes |-> shps,
     splits |-> [i \in 1..Len(keys) |-> cumsum(keys, shps, i)],
     inds   |-> [i \in 1..Len(keys) |->
                    [lo |-> cumsum(keys, shps, i - 1),
                     hi |-> cumsum(keys, shps, i)]],
     sizes  |-> [k \in Range(keys) |-> Prod(shps[k])]]

sizes(self) == self.sizes

\* splits[i - 1] (0-based), with np.r_[0, splits][i] for i = 0
splits(self, i) == IF i = 0 THEN 0 ELSE self.splits[i]

\* the length of a flattened vector: splits[-1] when there is a key
size(self) == splits(self, Len(self.splits))

\* inds[i] = slice(lo, hi), 0-based and half-open
inds(self, i) == self.inds[i]

RECURSIVE Ravel(_, _)
Ravel(keys, arrays_dict) ==
    IF keys = <<>> THEN <<>>
    ELSE arrays_dict[Head(keys)].data \o Ravel(Tail(keys), arrays_dict)

\* a flatten that compares element counts, not shapes
flatten_by_size(self, arrays_dict) ==
    IF \E k \in Range(self.keys) : k \notin DOMAIN arrays_dict
    THEN [exc |-> "KeyError", val |-> <<>>]
    ELSE IF \E k \in Range(self.keys) :
               Len(arrays_dict[k].data) # Prod(self.shapes[k])
    THEN [exc |-> "AssertionError", val |-> <<>>]
    ELSE IF self.keys = <<>>
    THEN [exc |-> "ValueError", val |-> <<>>]
    ELSE [exc |-> "none",
          val |-> <<Array(<<Len(Ravel(self.keys, arrays_dict))>>,
                          Ravel(self.keys, arrays_dict))>>]

\* flatten: [exc, val]; a missing key, a wrong shape or no key at all raises
flatten(self, arrays_dict) ==
    IF \E k \in Range(self.keys) : k \notin DOMAIN arrays_dict
    THEN [exc |-> "KeyError", val |-> <<>>]
    ELSE IF \E k \in Range(self.keys) : arrays_dict[k].shape # self.shapes[k]
    THEN [exc |-> "AssertionError", val |-> <<>>]
    ELSE IF self.keys = <<>>
    THEN [exc |-> "ValueError", val |-> <<>>]   \* np.concatenate([])
    ELSE [exc |-> "none",
          val |-> <<Array(<<size(self)>>, Ravel(self.keys, arrays_dict))>>]

\* arr[(slice(lo, hi),) * ndim] for a 1-d or 2-d arr, as row-major data (a
\* slice that runs past the end of a 1-d arr is cut short)
Block(arr, lo, hi, ndim) ==
    IF Len(arr.shape) = 1
    THEN SubSeq(arr.data, Min(lo, Len(arr.data)) + 1, Min(hi, Len(arr.data)))
    ELSE LET ncol == arr.shape[2]
             n    == hi - lo
         IN  IF ndim = 2
             THEN [i \in 1..(n * n) |->
                      arr.data[(lo + ((i - 1) \div n)) * ncol
                               + lo + ((i - 1) % n) + 1]]
             ELSE SubSeq(arr.data, lo * ncol + 1, hi * ncol)

\* unflatten(arr, ndim): ndim = 0 stands for None (then ndim = arr.ndim)
unflatten(self, arr, ndim0) ==
    LET ndim == IF ndim0 = 0 THEN Len(arr.shape) ELSE ndim0
        \* arr.shape[ndim:]
        arr_shape == SubSeq(arr.shape, ndim + 1, Len(arr.shape))
        entry(i) ==
            LET k     == self.keys[i]
                shape == self.shapes[k]
                blk   == Block(arr, inds(self, i).lo, inds(self, i).hi, ndim)
            IN  IF shape # <<>> \/ arr_shape # <<>>
                THEN Array((IF ndim = 2 THEN shape \o shape ELSE shape)
                           \o arr_shape, blk)
                ELSE Scalar(blk[1])
        \* zip(self.items(), arr_shapes, arrays) stops at the shorter one
        n == Min(Len(self.keys), Len(self.inds))
    IN  [k \in Range(SubSeq(self.keys, 1, n)) |->
            entry(CHOOSE i \in 1..n : self.keys[i] = k)]

\* the error unflatten raises: a block that cannot be reshaped to its key's
\* shape (or, for item(), that is not of size 1) is a ValueError
unflatten_exc(self, arr, ndim0) ==
    LET ndim == IF ndim0 = 0 THEN Len(arr.shape) ELSE ndim0
        arr_shape == SubSeq(arr.shape, ndim + 1, Len(arr.shape))
        n == Min(Len(self.keys), Len(self.inds))
        want(i) ==
            LET shape == self.shapes[self.keys[i]]
            IN  Prod(IF ndim = 2 THEN shape \o shape ELSE shape)
                * Prod(arr_shape)
    IN  IF \E i \in 1..n :
              Len(Block(arr, inds(self, i).lo, inds(self, i).hi, ndim))
                  # want(i)
        THEN "ValueError" ELSE "none"

\* dict.__setitem__, which FlattenArrays inherits: the shape of k is
\* replaced, or k is added last; splits, inds and sizes are left as they are
setitem(self, k, shape) ==
    [self EXCEPT !.keys   = IF k \in Range(@) THEN @ ELSE Append(@, k),
                 !.shapes = Update(@, [x \in {k} |-> shape])]

\* the size property: self.splits[-1]
size_get(self) ==
    IF self.splits = <<>> THEN [exc |-> "IndexError", val |-> <<>>]
    ELSE [exc |-> "none", val |-> <<self.splits[Len(self.splits)]>>]

-----------------------------------------------------------------------------
(* utils.py: OptResult and propagate_uncertainty *)

\* the NamedTuple's six fields, in declaration order
OptResult(mode, hess_inv, log_norm, full_hess_inv, result, status) ==
    [mode |-> mode, hess_inv |-> hess_inv, log_norm |-> log_norm,
     full_hess_inv |-> full_hess_inv, result |-> result, status |-> status]

RECURSIVE SeqSum(_)
SeqSum(s) == IF s = <<>> THEN 0 ELSE Head(s) + SeqSum(Tail(s))

\* a + b for two values of the same shape (a 0-d result is a numpy scalar)
Add(a, b) ==
    [kind  |-> IF a.shape = <<>> THEN "scalar" ELSE "array",
     shape |-> a.shape,
     data  |-> [i \in 1..Len(a.data) |-> a.data[i] + b.data[i]]]

\* the Python slices s[:n] and s[n:]; a negative n counts from the end
PySliceTo(s, n) ==
    IF n >= 0 THEN SubSeq(s, 1, Min(n, Len(s)))
    ELSE SubSeq(s, 1, IF Len(s) + n > 0 THEN Len(s) + n ELSE 0)

PySliceFrom(s, n) ==
    IF n >= 0 THEN SubSeq(s, Min(n, Len(s)) + 1, Len(s))
    ELSE SubSeq(s, (IF Len(s) + n > 0 THEN Len(s) + n ELSE 0) + 1, Len(s))

\* jac2d . cov2d . jac2d.T, reshaped to det_shape + det_shape
sandwich(cov, jac, det_shape, var_size, det_size) ==
    LET cov2d(i, j) == cov.data[(i - 1) * var_size + j]
        jac2d(a, i) == jac.data[(a - 1) * var_size + i]
        det_cov2d(a, b) ==
            SeqSum([i \in 1..var_size |->
                SeqSum([j \in 1..var_size |->
                    jac2d(a, i) * cov2d(i, j) * jac2d(b, j)])])
    IN  Array(det_shape \o det_shape,
              [n \in 1..(det_size * det_size) |->
                  det_cov2d(((n - 1) \div det_size) + 1,
                            ((n - 1) % det_size) + 1)])

\* a propagate_uncertainty that compares the Jacobian's trailing axes with
\* the first half of the covariance's shape only
propagate_uncertainty_first_half(cov, jac) ==
    LET var_ndim  == Len(cov.shape) \div 2
        det_ndim  == Len(jac.shape) - var_ndim
        det_shape == PySliceTo(jac.shape, det_ndim)
        var_shape == PySliceFrom(jac.shape, det_ndim)
    IN  IF var_shape # PySliceTo(cov.shape, var_ndim)
        THEN [exc |-> "AssertionError", val |-> <<>>]
        ELSE IF Prod(cov.shape) # Prod(var_shape) * Prod(var_shape)
        THEN [exc |-> "ValueError", val |-> <<>>]
        ELSE [exc |-> "none",
              val |-> <<sandwich(cov, jac, det_shape, Prod(var_shape),
                                 Prod(det_shape))>>]

\* propagate_uncertainty(cov, jac) = J . Cov . J^T, reshaped: [exc, val]
propagate_uncertainty(cov, jac) ==
    LET var_ndim  == Len(cov.shape) \div 2
        det_ndim  == Len(jac.shape) - var_ndim
        det_shape == PySliceTo(jac.shape, det_ndim)
        var_shape == PySliceFrom(jac.shape, det_ndim)
    IN  IF var_shape # PySliceTo(cov.shape, var_ndim)
           \/ PySliceTo(cov.shape, var_ndim) # PySliceFrom(cov.shape, var_ndim)
        THEN [exc |-> "AssertionError", val |-> <<>>]
        ELSE [exc |-> "none",
              val |-> <<sandwich(cov, jac, det_shape, Prod(var_shape),
                                 Prod(det_shape))>>]

-----------------------------------------------------------------------------
(* The factor graph the caller supplies: a prior on x, a linear map of x   *)
(* and y producing the deterministic variable z, and a likelihood on z.     *)

FactorNames == {"prior", "linear", "likelihood"}

\* Factor.variables, in declaration order
FactorVariables(f) ==
    CASE f = "prior"      -> <<"x">>
      [] f = "linear"     -> <<"x", "y">>
      [] f = "likelihood" -> <<"z">>

\* Factor.deterministic_variables
FactorDeterministic(f) == IF f = "linear" THEN <<"z">> ELSE <<>>

AllVariables == {"x", "y", "z"}

\* the shape of each variable's arrays
VariableShape == [v \in AllVariables |-> IF v = "y" THEN <<2>> ELSE <<>>]

\* factor(values): the deterministic values it produces (z is the sum of
\* the entries of the factor's variables)
FactorCall(f, values) ==
    [log_value |-> Scalar(0),
     deterministic_values |->
        [d \in Range(FactorDeterministic(f)) |->
            Scalar(SeqSum([i \in 1..Len(FactorVariables(f)) |->
                       SeqSum(values[FactorVariables(f)[i]].data)]))]]

\* factor.jacobian(values, free_vars).deterministic_values:
\* <<det, v>> -> d det / d v, of shape det_shape + var_shape
FactorJacobian(f, values, free_vars) ==
    [p \in Range(FactorDeterministic(f)) \X Range(free_vars) |->
        Array(VariableShape[p[1]] \o VariableShape[p[2]],
              Repeat(1, Prod(VariableShape[p[1]]) * Prod(VariableShape[p[2]])))]

\* the items of that dict, in order
JacobianItems(f, free_vars) ==
    IF FactorDeterministic(f) = <<>> THEN <<>>
    ELSE [i \in 1..Len(free_vars) |-> <<FactorDeterministic(f)[1], free_vars[i]>>]

-----------------------------------------------------------------------------
(* Messages and the FactorApproximation handed to the mode finder *)

\* a message: FixedMessage or not, its shape, mean and _support
Msg(fixed, shape, mean, support) ==
    [fixed |-> fixed, shape |-> shape, mean |-> mean, support |-> support]

\* the _support of each variable's message family: a tuple of (lower, upper)
\* pairs, here of one pair (<<>> is None, <<t>> the tuple t)
Support ==
    [v \in AllVariables |-> IF v = "y" THEN <<<<<<0, 9>>>>>>
                                        ELSE <<<<<<-9, 9>>>>>>]

\* the messages a variable can carry: a FixedMessage pinning a value, or a
\* free message (its mean plays no part in the mode finder)
Messages(v) ==
    {Msg(TRUE, VariableShape[v], Fill(VariableShape[v], m), Support[v]) :
        m \in 0..MaxVal}
    \cup {Msg(FALSE, VariableShape[v], Fill(VariableShape[v], 0), Support[v])}

FactorApproximation(factor, model_dist) ==
    [factor |-> factor, model_dist |-> model_dist]

-----------------------------------------------------------------------------
(* optimise.py: OptFactor *)

\* [b for bound in bounds[k] for b in repeat(bound, n)]
RECURSIVE RepeatEach(_, _)
RepeatEach(support, n) ==
    IF support = <<>> THEN <<>>
    ELSE Repeat(Head(support), n) \o RepeatEach(Tail(support), n)

\* the bounds list of __init__, over the items of kwargs in order
RECURSIVE BoundsList(_, _, _)
BoundsList(keys, shps, bounds) ==
    IF keys = <<>> THEN <<>>
    ELSE RepeatEach(bounds[Head(keys)][1], Prod(shps[Head(keys)]))
         \o BoundsList(Tail(keys), shps, bounds)

\* what __init__ raises while it builds the bounds list: bounds[k] of a key
\* the dict lacks, or the iteration over a support that is None
BoundsExc(keys, bounds) ==
    IF DOMAIN bounds = {} THEN "none"
    ELSE IF \E i \in 1..Len(keys) :
               /\ \A j \in 1..(i - 1) : keys[j] \in DOMAIN bounds
                                        /\ bounds[keys[j]] # <<>>
               /\ keys[i] \notin DOMAIN bounds
    THEN "KeyError"
    ELSE IF \E i \in 1..Len(keys) : bounds[keys[i]] = <<>>
    THEN "TypeError"
    ELSE "none"

\* OptFactor.__init__, the exception it raises under exc
OptFactor(factor_approx, kwargs, fixed_kws, bounds, sign, method) ==
    [exc           |-> BoundsExc(kwargs.keys, bounds),
     factor_approx |-> factor_approx,
     param_shapes  |-> FlattenArrays(kwargs.keys, kwargs.shapes),
     param_bounds  |-> bounds,
     free_vars     |-> kwargs.keys,
     deterministic_variables |-> FactorDeterministic(factor_approx.factor),
     sign          |-> sign,
     fixed_kws     |-> fixed_kws,
     method        |-> method,
     bounds        |-> IF DOMAIN bounds # {}
                          /\ BoundsExc(kwargs.keys, bounds) = "none"
                       THEN BoundsList(kwargs.keys, kwargs.shapes, bounds)
                       ELSE <<>>]

\* OptFactor.from_approx(factor_approx, **kwargs): kwargs, an ordered dict
\* [keys, shapes], is the dict the free variables' shapes are added to
from_approx_kwargs(factor_approx, kwargs) ==
    LET variables == FactorVariables(factor_approx.factor)
        dist      == factor_approx.model_dist
        fixed     == {v \in Range(variables) : dist[v].fixed}
        free      == SelectSeq(variables, LAMBDA v : ~dist[v].fixed)
        added     == SelectSeq(free, LAMBDA v : v \notin Range(kwargs.keys))
    IN  OptFactor(
            factor_approx,
            [keys   |-> kwargs.keys \o added,
             shapes |-> Update(kwargs.shapes,
                               [v \in Range(free) |-> dist[v].shape])],
            [v \in fixed |-> dist[v].mean],
            [v \in Range(free) |-> dist[v].support],
            -1,
            "L-BFGS-B")

\* OptFactor.from_approx called with no extra keyword arguments
from_approx(factor_approx) ==
    from_approx_kwargs(factor_approx, [keys |-> <<>>, shapes |-> EmptyDict])

\* what scipy.optimize.minimize can return for a vector of n parameters:
\* a solution among XS after one of NITS iterations, with an inverse
\* Hessian whose diagonal is one of HS
OptimizeResultsOver(n, XS, NITS, HS) ==
    {[x        |-> Array(<<n>>, xs),
      success  |-> (st = 0),
      status   |-> st,
      message  |-> IF st = 0 THEN "CONVERGENCE"
                   ELSE IF st = 1 THEN "ITERATION LIMIT" ELSE "ABNORMAL",
      nfev     |-> nit + 1,
      nit      |-> nit,
      fun      |-> nit,
      hess_inv |-> Array(<<n, n>>,
                      [i \in 1..(n * n) |->
                          IF (i - 1) \div n = (i - 1) % n THEN h ELSE h - 1])] :
        xs \in XS, st \in 0..2, nit \in NITS, h \in HS}

OptimizeResults(n) ==
    OptimizeResultsOver(n, SeqsOf(0..MaxVal, n), 1..MaxNit, {1, 2})

\* the diagnostic message _parse_result builds from the solver's result
Diagnostic(result) ==
    Message("optimise.find_factor_mode", result.nfev, result.nit,
            result.status, result.message)

\* OptFactor._parse_result
_parse_result(self, result, status) ==
    LET given    == IF status = <<>> THEN StatusDefault ELSE status[1]
        success  == result.success
        messages == given.messages \o <<Diagnostic(result)>>
        mode     == Update(unflatten(self.param_shapes, result.x, 0),
                           self.fixed_kws)
        covar    == unflatten(self.param_shapes, result.hess_inv, 0)
    IN  \* five positional arguments for six fields: status keeps its default
        OptResult(mode, covar, 0 - result.fun, result,
                  Status(success, messages), StatusDefault)

\* the end of maximise, once the start point p0 has been flattened to x0:
\* the solver runs, sign is set back to 1 and the result is parsed
maximise_run(self, popped, x0, status, result) ==
    IF x0.exc # "none"
    THEN [self |-> [self EXCEPT !.sign = -1], arrays_dict |-> popped,
          exc |-> x0.exc, val |-> <<>>]
    ELSE [self |-> [self EXCEPT !.sign = 1], arrays_dict |-> popped,
          exc |-> "none", val |-> <<_parse_result(self, result, status)>>]

\* the start point of maximise: arrays_dict.pop(v, draw) for every free
\* variable, where the draw sample[v] = model_dist[v].sample(1)[0] is made
\* before pop is called
StartPoint(self, arrays_dict, sample) ==
    [p0    |-> [v \in Range(self.free_vars) |->
                   IF v \in DOMAIN arrays_dict THEN arrays_dict[v]
                   ELSE sample[v]],
     drawn |-> self.free_vars]

\* OptFactor.__call__ on a vector for which the factor approximation sums
\* to logp
OptFactor_call(self, logp) == self.sign * logp

\* OptFactor.maximise: [self, arrays_dict, exc, val, p0, drawn], where
\* result is what the solver returns
maximise(self, arrays_dict, status, sample, result) ==
    maximise_run(
        self,
        [v \in DOMAIN arrays_dict \ Range(self.free_vars) |-> arrays_dict[v]],
        flatten(self.param_shapes, StartPoint(self, arrays_dict, sample).p0),
        status, result)
    @@ StartPoint(self, arrays_dict, sample)

-----------------------------------------------------------------------------
(* optimise.py: update_det_cov and find_factor_mode *)

\* covars[det] = covars.get(det, 0.) + pu
AddCov(covars, det, pu) ==
    Update(covars,
           [d \in {det} |->
               IF det \in DOMAIN covars THEN Add(covars[det], pu)
               ELSE Add(pu, Fill(pu.shape, 0))])

\* the loop of update_det_cov over the items of the Jacobian
RECURSIVE update_det_cov_loop(_, _, _)
update_det_cov_step(covars, items, jac, pu) ==
    IF pu.exc # "none" THEN [exc |-> pu.exc, val |-> <<>>]
    ELSE update_det_cov_loop(AddCov(covars, Head(items)[1], pu.val[1]),
                             Tail(items), jac)

update_det_cov_loop(covars, items, jac) ==
    IF items = <<>> THEN [exc |-> "none", val |-> <<covars>>]
    ELSE update_det_cov_step(
             covars, items, jac,
             propagate_uncertainty(covars[Head(items)[2]], jac[Head(items)]))

\* update_det_cov returns res, whose covariance dict it has modified
update_det_cov_return(res, r) ==
    IF r.exc # "none" THEN r
    ELSE [exc |-> "none", val |-> <<[res EXCEPT !.inv_hessian = r.val[1]]>>]

\* update_det_cov(res, jacobian): [exc, val]; it reads res.inv_hessian
update_det_cov(res, items, jac) ==
    IF "inv_hessian" \notin DOMAIN res
    THEN [exc |-> "AttributeError", val |-> <<>>]
    ELSE update_det_cov_return(
             res, update_det_cov_loop(res.inv_hessian, items, jac))

\* find_factor_mode, return_cov branch: the factor's deterministic values
\* go into res.mode, then their covariances into res
find_factor_mode_cov(factor, res, free_vars) ==
    update_det_cov(res, JacobianItems(factor, free_vars),
                   FactorJacobian(factor, res.mode, free_vars))

\* find_factor_mode after opt.maximise has given m: [exc, val, opt]
find_factor_mode_rest(factor, return_cov, m) ==
    IF m.exc # "none" THEN [exc |-> m.exc, val |-> <<>>, opt |-> m.self]
    ELSE IF ~return_cov
    THEN [exc |-> "none", val |-> m.val, opt |-> m.self]
    ELSE [opt |-> m.self] @@
         find_factor_mode_cov(
             factor,
             [m.val[1] EXCEPT
                 !.mode = Update(@, FactorCall(factor, @).deterministic_values)],
             m.self.free_vars)

\* find_factor_mode: [exc, val, opt]
find_factor_mode(factor_approx, return_cov, status, sample, result) ==
    find_factor_mode_rest(
        factor_approx.factor, return_cov,
        maximise(from_approx(factor_approx), EmptyDict, status, sample, result))

-----------------------------------------------------------------------------
(* The mode finder as a state machine: the caller builds an OptFactor and   *)
(* maximises it, or calls find_factor_mode, and looks at the outcome.       *)

\* every variable a factor touches
FactorAllVariables(f) ==
    Range(FactorVariables(f)) \cup Range(FactorDeterministic(f))

\* the factor approximations whose variable v carries a message of Ms(v)
ApproximationsOver(Ms(_)) ==
    UNION {{FactorApproximation(f, md) :
               md \in {d \in [FactorAllVariables(f) ->
                                 UNION {Ms(v) : v \in AllVariables}] :
                          \A v \in FactorAllVariables(f) : d[v] \in Ms(v)}} :
           f \in FactorNames}

FactorApproximations == ApproximationsOver(Messages)

\* the values a message family can declare as _support: None, one pair, or
\* a pair per parameter of a composite family
SupportInputs ==
    {<<>>, <<<<<<0, 9>>>>>>, <<<<<<-9, 9>>, <<0, 9>>>>>>}

\* a FixedMessage, or a free message of a family with any such support
MessagesOfAnyFamily(v) ==
    Messages(v) \cup
    {Msg(FALSE, VariableShape[v], Fill(VariableShape[v], 0), sp) :
        sp \in SupportInputs}

\* the keyword arguments a caller adds to from_approx: none, a name that is
\* no variable of the graph, or the name of a variable
KwargsInputs ==
    {[keys |-> <<>>, shapes |-> EmptyDict]} \cup
    {[keys |-> <<k>>, shapes |-> [j \in {k} |-> <<>>]] : k \in {"tol", "x"}}

\* the Status values a caller passes in (<<>> is None)
StatusInputs ==
    {<<>>,
     <<Status(TRUE, <<Message("earlier", 0, 0, 0, "ok")>>)>>,
     <<Status(FALSE, <<Message("earlier", 0, 0, 1, "failed")>>)>>}

\* the draws sample(1)[0] of the free messages
Samples == {[v \in AllVariables |-> Fill(VariableShape[v], s)] : s \in {0, 1}}

\* the start values a caller passes to maximise
StartDicts ==
    {[v \in K |-> Fill(VariableShape[v], MaxVal)] : K \in SUBSET AllVariables}

NoCall ==
    [op |-> "none", fa |-> <<>>, return_cov |-> FALSE, status |-> <<>>,
     result |-> <<>>, arrays_dict |-> EmptyDict, opt |-> <<>>,
     kwargs |-> [keys |-> <<>>, shapes |-> EmptyDict], sample |-> EmptyDict]

NoOutcome == [exc |-> "none", val |-> <<>>, arrays_dict |-> EmptyDict,
              p0 |-> EmptyDict, drawn |-> <<>>]

OptInit ==
    /\ opt = <<>>
    /\ call = NoCall
    /\ out = NoOutcome

\* opt = OptFactor.from_approx(factor_approx)
FromApprox ==
    /\ opt = <<>>
    /\ call.op = "none"
    /\ \E fa \in FactorApproximations :
          /\ opt' = <<from_approx(fa)>>
          /\ call' = [NoCall EXCEPT !.op = "from_approx", !.fa = <<fa>>]
    /\ out' = NoOutcome
    /\ UNCHANGED <<epvars, libvars>>

\* opt.maximise(arrays_dict, status=status)
Maximise ==
    /\ opt # <<>>
    /\ call.op = "from_approx"
    /\ \E ad \in StartDicts, st \in StatusInputs, sample \in Samples,
          result \in OptimizeResults(size(opt[1].param_shapes)) :
          LET m == maximise(opt[1], ad, st, sample, result)
          IN  /\ opt' = <<m.self>>
              /\ call' = [call EXCEPT !.op = "maximise", !.status = st,
                                      !.result = <<result>>,
                                      !.arrays_dict = ad, !.opt = opt,
                                      !.sample = sample]
              /\ out' = [exc |-> m.exc, val |-> m.val,
                         arrays_dict |-> m.arrays_dict,
                         p0 |-> m.p0, drawn |-> m.drawn]
    /\ UNCHANGED <<epvars, libvars>>

\* find_factor_mode(factor_approx, return_cov, status)
FindFactorMode ==
    /\ opt = <<>>
    /\ call.op = "none"
    /\ \E fa \in FactorApproximations, rc \in BOOLEAN, st \in StatusInputs,
          sample \in Samples :
          \E result \in OptimizeResults(size(from_approx(fa).param_shapes)) :
             LET r == find_factor_mode(fa, rc, st, sample, result)
             IN  /\ call' = [NoCall EXCEPT !.op = "find_factor_mode",
                                           !.fa = <<fa>>, !.return_cov = rc,
                                           !.status = st,
                                           !.result = <<result>>,
                                           !.opt = <<from_approx(fa)>>]
                 /\ out' = [NoOutcome EXCEPT !.exc = r.exc, !.val = r.val]
    /\ opt' = opt
    /\ UNCHANGED <<epvars, libvars>>

\* OptFactor.from_approx(factor_approx, **kwargs) for a message of any
\* family: the OptFactor, or the exception its construction raises
Construct ==
    /\ opt = <<>>
    /\ call.op = "none"
    /\ \E fa \in ApproximationsOver(MessagesOfAnyFamily),
          kwargs \in KwargsInputs :
          LET r == from_approx_kwargs(fa, kwargs)
          IN  /\ opt' = IF r.exc = "none" THEN <<r>> ELSE <<>>
              /\ call' = [NoCall EXCEPT !.op = "construct", !.fa = <<fa>>,
                                        !.opt = <<r>>, !.kwargs = kwargs]
              /\ out' = [NoOutcome EXCEPT !.exc = r.exc]
    /\ UNCHANGED <<epvars, libvars>>

\* the caller drops the outcome and the OptFactor
Discard ==
    /\ call.op \in {"maximise", "find_factor_mode", "construct", "residuals"}
    /\ opt' = <<>>
    /\ call' = NoCall
    /\ out' = NoOutcome
    /\ UNCHANGED <<epvars, libvars>>

OptNext ==
    \/ FromApprox
    \/ Maximise
    \/ FindFactorMode
    \/ Discard

-----------------------------------------------------------------------------
(* The mean-field approximation (mean_field.py).  A MeanFieldApproximation *)
(* is an object on the heap holding one message per variable; the scale of  *)
(* a message is not tracked.                                                *)

\* model_approx.factor_approximation(factor)
factor_approximation(content, factor) ==
    FactorApproximation(factor,
        [v \in FactorAllVariables(factor) |-> content[v]])

\* message_family.from_mode(mode, covar)
from_mode(v, mode) == Msg(FALSE, VariableShape[v], mode, Support[v])

\* factor_approx.project(model_dist, delta, status): [projection, status],
\* delta = 1 replaces the message, delta = 0 keeps the old one
factor_approx_project(factor_approx, model_dist, delta, status) ==
    [projection |->
        [v \in DOMAIN model_dist |->
            IF delta = 1 THEN model_dist[v] ELSE factor_approx.model_dist[v]],
     status |->
        Status(status.success,
               status.messages \o <<Message("project", 0, 0, 0, "ok")>>)]

\* model_approx.project(projection, status): [content, status], the content
\* of the NEW approximation
model_approx_project(content, projection, status) ==
    [content |-> Update(content, projection),
     status  |-> Status(status.success,
                    status.messages \o <<Message("merge", 0, 0, 0, "ok")>>)]

\* the id of the next object allocated
NewId(h) == Cardinality(DOMAIN h) + 1

\* allocate a new MeanFieldApproximation
Alloc(h, content) == [i \in DOMAIN h \cup {NewId(h)} |->
                         IF i \in DOMAIN h THEN h[i] ELSE content]

-----------------------------------------------------------------------------
(* optimise.py: laplace_factor_approx, lstsq_laplace_factor_approx *)

\* the new approximation object and the Status of a factor update
merged(h, m) ==
    [exc |-> "none", heap |-> Alloc(h, m.content), val |-> <<NewId(h)>>,
     status |-> <<m.status>>]

\* a merge that writes the projection into the approximation it was given
merge_in_place(h, model_approx, p) ==
    [exc    |-> "none",
     heap   |-> [h EXCEPT ![model_approx] =
                    model_approx_project(@, p.projection, p.status).content],
     val    |-> <<model_approx>>,
     status |-> <<model_approx_project(h[model_approx], p.projection,
                                       p.status).status>>]

\* model_approx.project(projection, status=status)
merge(h, model_approx, p) ==
    merged(h, model_approx_project(h[model_approx], p.projection, p.status))

\* laplace_factor_approx after find_factor_mode has given r
laplace_project(h, model_approx, factor_approx, delta, r) ==
    IF r.exc # "none"
    THEN [exc |-> r.exc, heap |-> h, val |-> <<>>, status |-> <<>>]
    ELSE merge(h, model_approx,
               factor_approx_project(
                   factor_approx,
                   [v \in DOMAIN r.val[1].mode |->
                       from_mode(v, r.val[1].mode[v])],
                   delta, r.val[1].status))

\* laplace_factor_approx(model_approx, factor, delta, status, opt_kws):
\* [exc, heap, val, status]; the status argument is not used
laplace_factor_approx(h, model_approx, factor, delta, status, sample, result) ==
    laplace_project(
        h, model_approx, factor_approximation(h[model_approx], factor), delta,
        find_factor_mode(factor_approximation(h[model_approx], factor),
                         TRUE, <<>>, sample, result))

\* the solver results the EP loop is run against: every entry of the
\* solution takes the same value
StepResults(n) ==
    OptimizeResultsOver(n, {Repeat(v, n) : v \in 0..MaxVal}, {1}, {1})

\* what scipy.optimize.least_squares can return for n parameters
LeastSquaresResults(n) ==
    {[x |-> Array(<<n>>, Repeat(v, n)), success |-> ok,
      status |-> IF ok THEN 1 ELSE 0,
      message |-> IF ok THEN "ok" ELSE "max_nfev", nfev |-> 2, njev |-> 1] :
        v \in 0..MaxVal, ok \in BOOLEAN}

\* the scale of every cavity message
CavityScale == 2

\* factor_approx.all_cavity_dist, as ordered items <<variable, message>>:
\* the variables of the factor, then its deterministic variables, each with
\* a message that is fixed exactly when the variable's model_dist is
all_cavity_dist(factor_approx) ==
    [i \in 1..Len(FactorVariables(factor_approx.factor)
                  \o FactorDeterministic(factor_approx.factor)) |->
        LET v == (FactorVariables(factor_approx.factor)
                  \o FactorDeterministic(factor_approx.factor))[i]
        IN  <<v, [fixed |-> factor_approx.model_dist[v].fixed,
                  mean  |-> factor_approx.model_dist[v].mean,
                  scale |-> CavityScale]>>]

\* the keys of a dict given as ordered items
ItemKeys(cavity) == [i \in 1..Len(cavity) |-> cavity[i][1]]

\* the default of opt_only: the variables whose cavity message is not a
\* FixedMessage
opt_only(cavity) ==
    ItemKeys(SelectSeq(cavity, LAMBDA item : ~item[2].fixed))

\* the cavity message of the variable v
CavityOf(cavity, v) ==
    cavity[CHOOSE i \in 1..Len(cavity) : cavity[i][1] = v][2]

\* LeastSquaresOpt.__init__ with opt_only not given: the fixed values, the
\* free parameters and the means, scales and shapes of the residuals
LeastSquaresOpt(factor_approx) ==
    [factor_approx |-> factor_approx,
     fixed_kws    |-> from_approx(factor_approx).fixed_kws,
     param_shapes |-> from_approx(factor_approx).param_shapes,
     opt_only     |-> opt_only(all_cavity_dist(factor_approx)),
     resid_means  |->
        [v \in Range(opt_only(all_cavity_dist(factor_approx))) |->
            CavityOf(all_cavity_dist(factor_approx), v).mean],
     resid_scales |->
        [v \in Range(opt_only(all_cavity_dist(factor_approx))) |->
            CavityOf(all_cavity_dist(factor_approx), v).scale],
     resid_shapes |->
        FlattenArrays(
            opt_only(all_cavity_dist(factor_approx)),
            [v \in Range(opt_only(all_cavity_dist(factor_approx))) |->
                CavityOf(all_cavity_dist(factor_approx), v).mean.shape])]

\* (value - mean) / scale, entry by entry; an entry <<d, s>> stands for d / s
Standardise(value, mean, scale) ==
    [value EXCEPT !.data = [i \in DOMAIN value.data |->
                               <<value.data[i] - mean.data[i], scale>>]]

\* LeastSquaresOpt.__call__ once vals = {**p0, **det_vars} is known
residuals(self, vals) ==
    IF \E v \in DOMAIN self.resid_means : v \notin DOMAIN vals
    THEN [exc |-> "KeyError", val |-> <<>>]
    ELSE flatten(self.resid_shapes,
                 [v \in DOMAIN self.resid_means |->
                     Standardise(vals[v], self.resid_means[v],
                                 self.resid_scales[v])])

\* LeastSquaresOpt.__call__(arr): [exc, val]
LeastSquaresOpt_call(self, arr) ==
    residuals(
        self,
        Update(unflatten(self.param_shapes, arr, 0),
               FactorCall(self.factor_approx.factor,
                          Update(unflatten(self.param_shapes, arr, 0),
                                 self.fixed_kws)).deterministic_values))

\* least_squares after the start point has been flattened to arr
least_squares_run(self, arr, result) ==
    IF arr.exc # "none"
    THEN [exc |-> arr.exc, mode |-> EmptyDict, result |-> result]
    ELSE [exc    |-> "none",
          mode   |->
             Update(unflatten(self.param_shapes, result.x, 0),
                    FactorCall(self.factor_approx.factor,
                               Update(unflatten(self.param_shapes, result.x, 0),
                                      self.fixed_kws)).deterministic_values),
          result |-> result]

\* LeastSquaresOpt.least_squares(): [exc, mode, result]
least_squares(self, sample, result) ==
    least_squares_run(
        self,
        flatten(self.param_shapes,
                [v \in Range(self.param_shapes.keys) |-> sample[v]]),
        result)

\* opt = LeastSquaresOpt(factor_approx)
LsqConstruct ==
    /\ opt = <<>>
    /\ call.op = "none"
    /\ \E fa \in FactorApproximations :
          /\ opt' = <<LeastSquaresOpt(fa)>>
          /\ call' = [NoCall EXCEPT !.op = "lsq", !.fa = <<fa>>]
    /\ out' = NoOutcome
    /\ UNCHANGED <<epvars, libvars>>

\* opt(arr) for a vector arr of the length of the flattened parameters
LsqResiduals ==
    /\ opt # <<>>
    /\ call.op = "lsq"
    /\ \E xs \in SeqsOf(0..MaxVal, size(opt[1].param_shapes)) :
          LET arr == Array(<<Len(xs)>>, xs)
              r   == LeastSquaresOpt_call(opt[1], arr)
          IN  /\ call' = [call EXCEPT !.op = "residuals", !.result = <<arr>>,
                                      !.opt = opt]
              /\ out' = [NoOutcome EXCEPT !.exc = r.exc, !.val = r.val]
    /\ opt' = opt
    /\ UNCHANGED <<epvars, libvars>>

\* the message lstsq_laplace_factor_approx builds from the solver's result
LsqDiagnostic(result) ==
    Message("optimise.lsq_sq_laplace_factor_approx", result.nfev, result.njev,
            result.status, result.message)

\* lstsq_laplace_factor_approx after least_squares has given ls
lstsq_project(h, model_approx, factor_approx, delta, ls) ==
    IF ls.exc # "none"
    THEN [exc |-> ls.exc, heap |-> h, val |-> <<>>, status |-> <<>>]
    ELSE merge(h, model_approx,
               factor_approx_project(
                   factor_approx,
                   [v \in DOMAIN ls.mode |-> from_mode(v, ls.mode[v])],
                   delta,
                   Status(ls.result.success,
                          <<LsqDiagnostic(ls.result)>>)))

\* lstsq_laplace_factor_approx(model_approx, factor, delta):
\* [exc, heap, val, status]
lstsq_laplace_factor_approx(h, model_approx, factor, delta, sample, result) ==
    lstsq_project(
        h, model_approx, factor_approximation(h[model_approx], factor), delta,
        least_squares(
            LeastSquaresOpt(factor_approximation(h[model_approx], factor)),
            sample, result))

-----------------------------------------------------------------------------
(* optimise.py: LaplaceOptimiser, and the caller of the factor updates *)

\* model_approx.factor_graph.factors: the graph's declared order
GraphFactors == <<"likelihood", "linear", "prior">>

\* the factor lists a caller passes to run (<<>> is None, <<fs>> a list)
FactorLists ==
    {<<>>, <<(<<>>)>>, <<(<<"prior">>)>>, <<(<<"prior", "linear">>)>>,
     <<(<<"linear", "prior">>)>>, <<(<<"prior", "prior">>)>>}

\* the approximations a caller starts from
InitContents ==
    {[v \in AllVariables |->
         IF v = "x"
         THEN Msg(fx[1], <<>>, Scalar(IF fx[1] THEN 1 ELSE 0), Support["x"])
         ELSE IF v = "y"
         THEN Msg(fx[2], <<2>>, Fill(<<2>>, IF fx[2] THEN 1 ELSE 0), Support["y"])
         ELSE Msg(FALSE, <<>>, Scalar(0), Support["z"])] :
        fx \in {<<FALSE, TRUE>>, <<FALSE, FALSE>>, <<TRUE, TRUE>>}}

NoRun ==
    [model_approx |-> 0, factors |-> <<>>, i |-> 0, k |-> 0,
     step_approx |-> 0, new_approx |-> <<>>, exc |-> "none", ret |-> <<>>,
     yields |-> <<>>]

\* the parameters of laplace_factor_approx after model_approx and factor, as
\* a call binds them (<<>> is None for status and opt_kws)
LaplaceArgs(delta, status, opt_kws) ==
    [delta |-> delta, status |-> status, opt_kws |-> opt_kws]

\* step: laplace_factor_approx(new_approx, factor, self.delta, self.opt_kws),
\* both given by position
StepArgs(c) == LaplaceArgs(c.delta, c.opt_kws, <<>>)

\* the keywords laplace_factor_approx gives find_factor_mode besides
\* return_cov: its own opt_kws, unpacked
FindFactorModeKwargs(args) == args.opt_kws

\* the options of opt.maximise(status=status, **opt_kws) in find_factor_mode
\* when it is called with the keywords kwargs: those of its own parameter
\* opt_kws, which is left at None, while kwargs go to OptFactor.from_approx
MaximiseKws(kwargs) == <<>>

NoUpdate ==
    [op |-> "none", factor |-> "none", model_approx |-> 0, delta |-> 0,
     success |-> TRUE, diag |-> Message("none", 0, 0, 0, "none"),
     exc |-> "none", val |-> <<>>, status |-> <<>>, before |-> {},
     args |-> LaplaceArgs(0, <<>>, <<>>), maximise_kws |-> <<>>]

\* LaplaceOptimiser.__init__(n_iter, delta, opt_kws), and one approximation
EPInit ==
    /\ heap \in {[i \in {1} |-> c] : c \in InitContents}
    /\ history = EmptyDict
    /\ cfg \in [n_iter : 0..MaxIter, delta : {0, 1},
                opt_kws : {<<>>, <<"tol">>}]
    /\ pc = "idle"
    /\ run = NoRun
    /\ last = NoUpdate
    /\ nupdates = 0

\* the factors step iterates over
StepFactors(r) == IF r.factors = <<>> THEN GraphFactors ELSE r.factors[1]

\* the record kept of a factor update
UpdateRecord(op, factor, model_approx, delta, success, diag, u, h) ==
    [op |-> op, factor |-> factor, model_approx |-> model_approx,
     delta |-> delta, success |-> success, diag |-> diag, exc |-> u.exc,
     val |-> u.val, status |-> u.status, before |-> DOMAIN h,
     args |-> LaplaceArgs(delta, <<>>, <<>>), maximise_kws |-> <<>>]

\* the caller calls optimiser.run(model_approx, factors)
RunCall ==
    /\ pc = "idle"
    /\ last.op = "none"
    /\ \E ma \in DOMAIN heap, fs \in FactorLists :
          run' = [NoRun EXCEPT !.model_approx = ma, !.factors = fs]
    /\ pc' = "outer"
    /\ nupdates' = 0
    /\ UNCHANGED <<heap, history, cfg, last, optvars, libvars>>

\* run, at `for i in range(self.n_iter)`: start the next sweep's generator,
\* or leave the loop and `return new_approx`
RunOuter ==
    /\ pc = "outer"
    /\ IF run.i < cfg.n_iter
       THEN /\ run' = [run EXCEPT !.k = 0, !.step_approx = run.model_approx]
            /\ pc' = "inner"
       ELSE IF run.new_approx = <<>>
       THEN /\ run' = [run EXCEPT !.exc = "UnboundLocalError"]
            /\ pc' = "raised"
       ELSE /\ run' = [run EXCEPT !.ret = run.new_approx]
            /\ pc' = "returned"
    /\ UNCHANGED <<heap, history, cfg, last, nupdates, optvars, libvars>>

\* run resumes the step generator (run.yields lists what it has yielded so
\* far): the next factor update, its yield and
\* the history entry; or the generator is exhausted and the sweep ends
RunInner ==
    /\ pc = "inner"
    /\ IF run.k < Len(StepFactors(run))
       THEN LET factor == StepFactors(run)[run.k + 1]
                fa == factor_approximation(heap[run.step_approx], factor)
            IN  \E sample \in Samples,
                   result \in StepResults(size(from_approx(fa).param_shapes)) :
                   LET u == laplace_factor_approx(heap, run.step_approx, factor,
                                StepArgs(cfg).delta, StepArgs(cfg).status,
                                sample, result)
                   IN  /\ last' = [UpdateRecord("step", factor,
                                      run.step_approx, StepArgs(cfg).delta,
                                      result.success, Diagnostic(result),
                                      u, heap)
                                   EXCEPT
                                     !.args = StepArgs(cfg),
                                     !.maximise_kws = MaximiseKws(
                                         FindFactorModeKwargs(StepArgs(cfg)))]
                       /\ nupdates' = IF u.exc = "none" THEN nupdates + 1
                                      ELSE nupdates
                       /\ heap' = u.heap
                       /\ IF u.exc # "none"
                          THEN /\ run' = [run EXCEPT !.exc = u.exc]
                               /\ pc' = "raised"
                               /\ history' = history
                          ELSE /\ run' = [run EXCEPT !.k = run.k + 1,
                                              !.step_approx = u.val[1],
                                              !.new_approx = u.val,
                                              !.yields = @ \o
                                                 <<<<run.i, factor, u.val[1]>>>>]
                               /\ pc' = "inner"
                               /\ history' =
                                     Update(history,
                                        [key \in {<<run.i, factor>>} |-> u.val[1]])
       ELSE /\ run' = [run EXCEPT !.i = run.i + 1]
            /\ pc' = "outer"
            /\ UNCHANGED <<heap, history, last, nupdates>>
    /\ UNCHANGED <<cfg, optvars, libvars>>

\* the caller takes the value run returned, or catches what it raised
RunDone ==
    /\ pc \in {"returned", "raised"}
    /\ pc' = "idle"
    /\ run' = NoRun
    /\ last' = NoUpdate
    /\ UNCHANGED <<heap, history, cfg, nupdates, optvars, libvars>>

\* the caller has looked at the outcome of a factor update it called
UpdateDone ==
    /\ pc = "idle"
    /\ last.op # "none"
    /\ last' = NoUpdate
    /\ UNCHANGED <<heap, history, cfg, pc, run, nupdates, optvars, libvars>>

\* the caller calls laplace_factor_approx(model_approx, factor, delta) with
\* the delta the optimiser was built with
LaplaceCall ==
    /\ pc = "idle"
    /\ last.op = "none"
    /\ \E ma \in DOMAIN heap, factor \in FactorNames, sample \in Samples :
          \E result \in StepResults(size(from_approx(
                            factor_approximation(heap[ma], factor)).param_shapes)) :
             LET u == laplace_factor_approx(heap, ma, factor, cfg.delta, <<>>,
                                            sample, result)
             IN  /\ last' = UpdateRecord("laplace", factor, ma, cfg.delta,
                                         result.success, Diagnostic(result),
                                         u, heap)
                 /\ heap' = u.heap
    /\ UNCHANGED <<history, cfg, pc, run, nupdates, optvars, libvars>>

\* the caller calls lstsq_laplace_factor_approx(model_approx, factor, delta)
\* with the delta the optimiser was built with
LstsqCall ==
    /\ pc = "idle"
    /\ last.op = "none"
    /\ Cardinality(DOMAIN heap) < MaxApprox
    /\ \E ma \in DOMAIN heap, factor \in FactorNames, sample \in Samples :
          \E result \in LeastSquaresResults(size(from_approx(
                            factor_approximation(heap[ma], factor)).param_shapes)) :
             LET u == lstsq_laplace_factor_approx(heap, ma, factor,
                                                  cfg.delta, sample, result)
             IN  /\ last' = UpdateRecord("lstsq", factor, ma, cfg.delta,
                                         result.success, LsqDiagnostic(result),
                                         u, heap)
                 /\ heap' = u.heap
    /\ UNCHANGED <<history, cfg, pc, run, nupdates, optvars, libvars>>

EPNext ==
    \/ RunCall
    \/ RunOuter
    \/ RunInner
    \/ RunDone
    \/ UpdateDone
    \/ LaplaceCall
    \/ LstsqCall

-----------------------------------------------------------------------------
(* utils.py: a FlattenArrays object and its caller, who constructs it,     *)
(* may assign one of its items, and then makes one call on it (a flatten    *)
(* can be followed by the unflatten of its result).                         *)

FlatKeys == {"a", "b"}

\* the shapes registered: a scalar, a vector, a matrix
FlatShapes == {<<>>, <<2>>, <<1, 2>>}

\* the orders in which the keys can be registered
KeySeqs ==
    {<<>>} \cup {<<k>> : k \in FlatKeys}
    \cup {ks \in FlatKeys \X FlatKeys : ks[1] # ks[2]}

\* the values a caller passes to flatten
FlatValues ==
    {Scalar(v) : v \in 0..MaxVal}
    \cup {Array(sh, d) : sh \in FlatShapes \ {<<>>}, d \in SeqsOf(0..MaxVal, 2)}

ArrayDicts == UNION {[K -> FlatValues] : K \in SUBSET FlatKeys}

NoFlatCall ==
    [op |-> "none", ctor |-> <<>>, x |-> EmptyDict, exc |-> "none",
     val |-> <<>>, back |-> <<>>]

FlatIdle ==
    /\ fobj = <<>>
    /\ fcall = NoFlatCall

\* fobj = FlattenArrays(dict_)
FlatConstruct ==
    /\ fobj = <<>>
    /\ \E ks \in KeySeqs :
          \E shps \in [Range(ks) -> FlatShapes] :
             /\ fobj' = <<FlattenArrays(ks, shps)>>
             /\ fcall' = [NoFlatCall EXCEPT
                             !.op = "init",
                             !.ctor = <<[keys |-> ks, shapes |-> shps]>>]
    /\ UNCHANGED <<optvars, epvars, modelvars, numvars, idvars, assertvars, dirvars>>

\* fobj.flatten(x)
FlatFlatten ==
    /\ fobj # <<>>
    /\ fcall.op \in {"init", "setitem"}
    /\ \E x \in ArrayDicts :
          LET r == flatten(fobj[1], x)
          IN  fcall' = [fcall EXCEPT !.op = "flatten", !.x = x,
                                     !.exc = r.exc, !.val = r.val,
                                     !.back = <<>>]
    /\ UNCHANGED <<fobj, optvars, epvars, modelvars, numvars, idvars, assertvars, dirvars>>

\* fobj.unflatten(v) of the vector v that flatten has just returned
FlatUnflatten ==
    /\ fobj # <<>>
    /\ fcall.op = "flatten"
    /\ fcall.exc = "none"
    /\ LET e == unflatten_exc(fobj[1], fcall.val[1], 0)
       IN  fcall' = [fcall EXCEPT
                        !.op = "unflatten", !.exc = e,
                        !.back = IF e = "none"
                                 THEN <<unflatten(fobj[1], fcall.val[1], 0)>>
                                 ELSE <<>>]
    /\ UNCHANGED <<fobj, optvars, epvars, modelvars, numvars, idvars, assertvars, dirvars>>

\* fobj[k] = shape
FlatSetItem ==
    /\ fobj # <<>>
    /\ fcall.op = "init"
    /\ \E k \in FlatKeys, shape \in FlatShapes :
          /\ fobj' = <<setitem(fobj[1], k, shape)>>
          /\ fcall' = [fcall EXCEPT !.op = "setitem", !.x = EmptyDict,
                                     !.exc = "none", !.val = <<>>,
                                     !.back = <<>>]
    /\ UNCHANGED <<optvars, epvars, modelvars, numvars, idvars, assertvars, dirvars>>

\* fobj.size
FlatSize ==
    /\ fobj # <<>>
    /\ fcall.op \in {"init", "setitem"}
    /\ fcall' = [fcall EXCEPT !.op = "size", !.x = EmptyDict,
                               !.exc = size_get(fobj[1]).exc,
                               !.val = size_get(fobj[1]).val,
                               !.back = <<>>]
    /\ UNCHANGED <<fobj, optvars, epvars, modelvars, numvars, idvars, assertvars, dirvars>>

FlatNext ==
    \/ FlatConstruct
    \/ FlatFlatten
    \/ FlatUnflatten
    \/ FlatSetItem
    \/ FlatSize

-----------------------------------------------------------------------------
(* utils.py: the numerical helpers and their caller *)

\* the sizes an axis can have
Dims == {1, 2}

\* every shape of at most MaxRank axes
ShapesUpTo(r) == UNION {SeqsOf(Dims, n) : n \in 0..r}

\* the arrays handed to propagate_uncertainty: every entry is the same
Tensors == {Array(sh, Repeat(v, Prod(sh))) : sh \in ShapesUpTo(MaxRank),
                                             v \in 0..MaxVal}

NoNumCall ==
    [op |-> "none", args |-> <<>>, exc |-> "none", val |-> <<>>,
     warned |-> FALSE, iters |-> 0]

NumIdle == ncall = NoNumCall

\* invpsilog refines its starting guess by this many Newton-Raphson steps
NewtonIters == 4

\* the solution of psi(x) - log(x) = c after n Newton-Raphson steps
Refined(c, n) == [solves |-> c, steps |-> n]

\* an invpsilog that rejects positive entries only
invpsilog_nonpositive(c) ==
    IF \E i \in 1..Len(c.data) : c.data[i] > 0
    THEN [exc |-> "ValueError", val |-> <<>>, iters |-> 0]
    ELSE [exc   |-> "none",
          val   |-> <<Array(c.shape, [i \in 1..Len(c.data) |->
                                        Refined(c.data[i], NewtonIters)])>>,
          iters |-> NewtonIters]

\* invpsilog(c): [exc, val, iters], iters the Newton-Raphson steps run
invpsilog(c) ==
    IF ~(\A i \in 1..Len(c.data) : c.data[i] < 0)
    THEN [exc |-> "ValueError", val |-> <<>>, iters |-> 0]
    ELSE [exc   |-> "none",
          val   |-> <<Array(c.shape, [i \in 1..Len(c.data) |->
                                        Refined(c.data[i], NewtonIters)])>>,
          iters |-> NewtonIters]

\* the inputs of invpsilog: a scalar, or a vector of 0, 1 or 2 entries
PsilogInputs ==
    {Array(<<>>, <<v>>) : v \in (0 - MaxVal)..MaxVal}
    \cup UNION {{Array(<<n>>, d) : d \in SeqsOf((0 - MaxVal)..MaxVal, n)} :
                   n \in 0..2}

\* inv_beta_suffstats clamps at 0.5; shape parameters are counted in halves
ClampFloor == 1

\* what the 5 Newton-Raphson iterations of inv_beta_suffstats can leave in
\* a row (a, b) of ab, in halves
NewtonOutcomes == ((0 - MaxVal)..(MaxVal + 1)) \X ((0 - MaxVal)..(MaxVal + 1))

\* np.clip(ab, 0.5, None)
clip(ab) ==
    [r \in 1..Len(ab) |->
        <<IF ab[r][1] < ClampFloor THEN ClampFloor ELSE ab[r][1],
          IF ab[r][2] < ClampFloor THEN ClampFloor ELSE ab[r][2]>>]

\* inv_beta_suffstats(lnX, ln1X) for lnX of the given shape, ab being what
\* the Newton-Raphson loop has left: [exc, val, warned].  The clipped
\* array is bound to the name b, which is assigned again before the return.
inv_beta_suffstats(shape, ab) ==
    LET warned == \E r \in 1..Len(ab) : ab[r][1] < 0 \/ ab[r][2] < 0
        b0 == IF warned THEN <<clip(ab)>> ELSE <<>>
        a  == IF shape # <<>>
              THEN Array(shape, [r \in 1..Len(ab) |-> ab[r][1]])
              ELSE Scalar(ab[1][1])
        b  == IF shape # <<>>
              THEN Array(shape, [r \in 1..Len(ab) |-> ab[r][2]])
              ELSE Scalar(ab[1][2])
    IN  [exc |-> "none", val |-> <<a, b>>, warned |-> warned]

\* invpsilog(c)
Invpsilog ==
    /\ ncall.op = "none"
    /\ \E c \in PsilogInputs :
          ncall' = [NoNumCall EXCEPT
                       !.op = "invpsilog",
                       !.args = <<c>>,
                       !.exc = invpsilog(c).exc,
                       !.val = invpsilog(c).val,
                       !.iters = invpsilog(c).iters]
    /\ UNCHANGED <<optvars, epvars, modelvars, flatvars, idvars, assertvars, dirvars>>

\* inv_beta_suffstats(lnX, ln1X) for a scalar lnX or a vector of 1 or 2
InvBetaSuffstats ==
    /\ ncall.op = "none"
    /\ \E shape \in {<<>>, <<1>>, <<2>>} :
          \E ab \in SeqsOf(NewtonOutcomes, Prod(shape)) :
             ncall' = [NoNumCall EXCEPT
                          !.op = "inv_beta_suffstats",
                          !.args = <<shape, ab>>,
                          !.exc = inv_beta_suffstats(shape, ab).exc,
                          !.val = inv_beta_suffstats(shape, ab).val,
                          !.warned = inv_beta_suffstats(shape, ab).warned]
    /\ UNCHANGED <<optvars, epvars, modelvars, flatvars, idvars, assertvars, dirvars>>

\* propagate_uncertainty(cov, jac)
PropagateUncertainty ==
    /\ ncall.op = "none"
    /\ \E cov \in Tensors, jac \in Tensors :
          ncall' = [NoNumCall EXCEPT
                       !.op = "propagate_uncertainty",
                       !.args = <<cov, jac>>,
                       !.exc = propagate_uncertainty(cov, jac).exc,
                       !.val = propagate_uncertainty(cov, jac).val]
    /\ UNCHANGED <<optvars, epvars, modelvars, flatvars, idvars, assertvars, dirvars>>

\* the caller has looked at the outcome
NumDone ==
    /\ ncall.op # "none"
    /\ ncall' = NoNumCall
    /\ UNCHANGED <<optvars, epvars, modelvars, flatvars, idvars, assertvars, dirvars>>

NumNext ==
    \/ PropagateUncertainty
    \/ Invpsilog
    \/ InvBetaSuffstats
    \/ NumDone

-----------------------------------------------------------------------------
(* model_object.py: IdentifierField, on objects of an owner class that      *)
(* declares its attributes search and model as IdentifierField and caches   *)
(* its identifier as AbstractPaths.identifier does                          *)

ObjIds == {1, 2}
FieldNames == {"search", "model"}
None == <<>>
FieldValues == {None} \cup {<<v>> : v \in 0..MaxVal}

\* IdentifierField.__set_name__: the name of the private attribute
private(name) == "_" \o name

\* the attributes a new object shows: the class-level None that __set_name__
\* stored for every field, and the _identifier = None of the constructor
NewObject == [a \in {private(f) : f \in FieldNames} \cup {"_identifier"} |-> None]

\* IdentifierField.__get__
IdentifierField_get(obj, name) == obj[private(name)]

\* a __set__ that stores the value and leaves the cached identifier alone
IdentifierField_set_keep(obj, name, value) ==
    [obj EXCEPT ![private(name)] = value]

\* IdentifierField.__set__
IdentifierField_set(obj, name, value) ==
    [[obj EXCEPT !["_identifier"] = None] EXCEPT ![private(name)] = value]

\* str(Identifier([search, model])): a digest that tells apart any two
\* pairs of field values
Identifier(search, model) == <<search, model>>

\* AbstractPaths.identifier: the object afterwards, the value returned and
\* whether the value was computed by this read
identifier(obj) ==
    IF obj["_identifier"] = None
    THEN LET id == Identifier(IdentifierField_get(obj, "search"),
                              IdentifierField_get(obj, "model"))
         IN [obj |-> [obj EXCEPT !["_identifier"] = <<id>>],
             ret |-> id, computed |-> TRUE]
    ELSE [obj |-> obj, ret |-> obj["_identifier"][1], computed |-> FALSE]

\* what the caller has done so far: the last value it assigned to each field
\* of each object, and the objects it assigned to since their last
\* identifier read
NoIdCall == [op |-> "none", obj |-> 0, field |-> "", ret |-> None,
             computed |-> FALSE, was_dirty |-> FALSE,
             assigned |-> EmptyDict, dirty |-> {}]

IdIdle ==
    /\ owner = EmptyDict
    /\ icall = NoIdCall

IdConstruct ==
    /\ \E o \in ObjIds \ DOMAIN owner :
         /\ owner' = Update(owner, [k \in {o} |-> NewObject])
         /\ icall' = [icall EXCEPT !.op = "new", !.obj = o, !.field = "",
                                   !.ret = None, !.computed = FALSE,
                                   !.was_dirty = FALSE]
    /\ UNCHANGED <<optvars, epvars, modelvars, flatvars, numvars, assertvars, dirvars>>

IdSet ==
    /\ \E o \in DOMAIN owner, f \in FieldNames, v \in FieldValues :
         /\ owner' = [owner EXCEPT ![o] = IdentifierField_set(@, f, v)]
         /\ icall' = [icall EXCEPT
                !.op = "set", !.obj = o, !.field = f, !.ret = None,
                !.computed = FALSE, !.was_dirty = FALSE,
                !.assigned = Update(@, [k \in {<<o, f>>} |-> v]),
                !.dirty = @ \cup {o}]
    /\ UNCHANGED <<optvars, epvars, modelvars, flatvars, numvars, assertvars, dirvars>>

IdGet ==
    /\ \E o \in DOMAIN owner, f \in FieldNames :
         /\ icall' = [icall EXCEPT
                !.op = "get", !.obj = o, !.field = f,
                !.ret = IdentifierField_get(owner[o], f),
                !.computed = FALSE, !.was_dirty = FALSE]
    /\ UNCHANGED <<owner, optvars, epvars, modelvars, flatvars, numvars, assertvars,
                   dirvars>>

IdRead ==
    /\ \E o \in DOMAIN owner :
         LET r == identifier(owner[o])
         IN /\ owner' = [owner EXCEPT ![o] = r.obj]
            /\ icall' = [icall EXCEPT
                   !.op = "identifier", !.obj = o, !.field = "",
                   !.ret = <<r.ret>>, !.computed = r.computed,
                   !.was_dirty = o \in icall.dirty,
                   !.dirty = @ \ {o}]
    /\ UNCHANGED <<optvars, epvars, modelvars, flatvars, numvars, assertvars, dirvars>>

IdNext == IdConstruct \/ IdSet \/ IdGet \/ IdRead

-----------------------------------------------------------------------------
(* assertion.py: Assertion *)

Priors == {"p1", "p2"}

\* what an Assertion can be built on: a prior, or a constant that is a float
\* or an int
Operands ==
    [kind : {"prior"}, v : Priors] \cup [kind : {"float", "int"}, v : 0..MaxVal]

\* arg_dict: physical values for some of the priors
ArgDicts == UNION {[ps -> 0..MaxVal] : ps \in SUBSET Priors}

\* the value __call__ compares for one operand: the operand itself when
\* isinstance(operand, float), arg_dict[operand] otherwise
Lookup(operand, arg_dict) ==
    IF operand.kind = "float" THEN [exc |-> "", val |-> operand.v]
    ELSE IF operand.kind = "prior" /\ operand.v \in DOMAIN arg_dict
    THEN [exc |-> "", val |-> arg_dict[operand.v]]
    ELSE [exc |-> "KeyError", val |-> 0]

\* Assertion.__call__
Assertion_call(self, arg_dict) ==
    LET lower   == Lookup(self.lower, arg_dict)
        greater == Lookup(self.greater, arg_dict)
    IN IF lower.exc # "" THEN lower.exc
       ELSE IF greater.exc # "" THEN greater.exc
       ELSE IF lower.val > greater.val THEN "FitException"
       ELSE ""

NoAssertCall == [op |-> "none", self |-> <<>>, arg_dict |-> EmptyDict,
                 exc |-> ""]

AssertIdle == acall = NoAssertCall

\* Assertion.__init__
AssertConstruct ==
    /\ acall.op = "none"
    /\ \E lower \in Operands, greater \in Operands :
         acall' = [acall EXCEPT
            !.op = "init",
            !.self = <<[lower |-> lower, greater |-> greater]>>]
    /\ UNCHANGED <<optvars, epvars, modelvars, flatvars, numvars, idvars, dirvars>>

AssertCall ==
    /\ acall.op \in {"init", "call"}
    /\ \E arg_dict \in ArgDicts :
         acall' = [acall EXCEPT
            !.op = "call",
            !.arg_dict = arg_dict,
            !.exc = Assertion_call(acall.self[1], arg_dict)]
    /\ UNCHANGED <<optvars, epvars, modelvars, flatvars, numvars, idvars, dirvars>>

AssertNext == AssertConstruct \/ AssertCall

-----------------------------------------------------------------------------
(* update_identifiers.py: update_directory_identifiers *)

\* identifiers, which name the result directories under the output path
Identifiers == {"id1", "id2", "id3"}
OldIdentifiers == {"id1", "id2"}

\* the files of a result directory, relative to it
SearchPickle == "pickles/search.pickle"
ResultPaths == {"model.results", "pickles/samples.pickle", SearchPickle}

\* the entry of the result directory that a file lies in or is
Top(p) == IF p \in {"pickles/samples.pickle", SearchPickle}
          THEN "pickles" ELSE p

\* os.listdir
listdir(dir) == {Top(p) : p \in DOMAIN dir}

\* a pickled search: the identifier its paths have cached, and the one that
\* Identifier([search, model]) gives for it now
Search(id, new, saved) == [id |-> id, new |-> new, saved |-> saved]

\* a result directory as a search left it under the identifier id
ResultDirs(id) ==
    {[p \in ps \cup {SearchPickle} |->
        IF p = SearchPickle THEN Search(id, new, FALSE) ELSE [origin |-> id]] :
     ps \in SUBSET (ResultPaths \ {SearchPickle}), new \in Identifiers}

\* the output directory before the call: some result directories
Disks ==
    UNION {{dk \in [ids -> UNION {ResultDirs(id) : id \in ids}] :
              \A id \in ids : dk[id] \in ResultDirs(id)} :
           ids \in (SUBSET OldIdentifiers) \ {{}}}

\* os.makedirs(path, exist_ok=True) of make_path
makedirs(dk, id) ==
    IF id \in DOMAIN dk THEN dk ELSE Update(dk, [k \in {id} |-> EmptyDict])

\* the loop over os.listdir(source_directory): every entry that does not
\* exist in the target directory is moved there
move_missing(dk, source, target) ==
    LET moved == {p \in DOMAIN dk[source] :
                    Top(p) \notin listdir(dk[target])}
    IN IF source = target THEN dk
       ELSE [dk EXCEPT
              ![target] = Update(@, [p \in moved |-> dk[source][p]]),
              ![source] = [p \in DOMAIN @ \ moved |-> @[p]]]

\* paths.save_object("search", search): the pickle of the search under the
\* output path of its paths
save_object(dk, id) ==
    [dk EXCEPT ![id] = Update(@, [p \in {SearchPickle} |->
                                    Search(id, id, TRUE)])]

\* shutil.rmtree
rmtree(dk, id) == [d \in DOMAIN dk \ {id} |-> dk[d]]

\* the body of the loop of update_directory_identifiers for the output
\* found in the directory dir
update_output(dk, dir) ==
    LET search == dk[dir][SearchPickle]
        source_directory == search.id
        target_directory == search.new
        made == makedirs(makedirs(dk, source_directory), target_directory)
    IN rmtree(save_object(move_missing(made, source_directory,
                                       target_directory),
                          target_directory),
              source_directory)

\* ClassicAggregator(output_directory): the result directories, in the
\* order the walk finds them
Aggregator(dk) ==
    {found \in SeqsOf(DOMAIN dk, Cardinality(DOMAIN dk)) :
       \A i, j \in 1..Len(found) : i # j => found[i] # found[j]}

NotCalled == [pc |-> "none", outputs |-> <<>>, before |-> EmptyDict,
              targets |-> EmptyDict]

DirIdle ==
    /\ disk = EmptyDict
    /\ upd = NotCalled

\* the results on disk when update_directory_identifiers is called
DirStart ==
    /\ disk \in Disks
    /\ upd = NotCalled

UpdCall ==
    /\ upd.pc = "none"
    /\ \E found \in Aggregator(disk) :
         upd' = [upd EXCEPT !.pc = "loop", !.outputs = found,
                            !.before = disk]
    /\ UNCHANGED <<disk, optvars, epvars, modelvars, flatvars, numvars, idvars,
                   assertvars>>

UpdOutput ==
    /\ upd.pc = "loop"
    /\ upd.outputs # <<>>
    /\ LET dir == Head(upd.outputs)
       IN /\ disk' = update_output(disk, dir)
          /\ upd' = [upd EXCEPT
                !.outputs = Tail(@),
                !.targets = Update(@, [k \in {dir} |->
                                         disk[dir][SearchPickle].new])]
    /\ UNCHANGED <<optvars, epvars, modelvars, flatvars, numvars, idvars, assertvars>>

UpdReturn ==
    /\ upd.pc = "loop"
    /\ upd.outputs = <<>>
    /\ upd' = [upd EXCEPT !.pc = "done"]
    /\ UNCHANGED <<disk, optvars, epvars, modelvars, flatvars, numvars, idvars,
                   assertvars>>

DirNext == UpdCall \/ UpdOutput \/ UpdReturn

-----------------------------------------------------------------------------
(* paths/abstract.py: AbstractPaths, with path_prefix and name left empty *)

\* AbstractPaths.__init__: the attributes the identifier depends on
AbstractPaths ==
    [a \in {"_search", "model", "_non_linear_name", "_identifier"} |-> None]

\* the paths objects a caller makes, and what it assigns to their search
\* (a search object, named by its class) and to their model
PathsIds == {1}
Searches == {None, <<"Emcee">>, <<"DynestyStatic">>}
Models == {None, <<"model">>}

\* type(search).__name__ in snake case
non_linear_name(search) ==
    IF search = None THEN "none_type"
    ELSE IF search = <<"Emcee">> THEN "emcee" ELSE "dynesty_static"

\* the setter of the property search
search_setter(self, search) ==
    [self EXCEPT !["_search"] = search,
                 !["_non_linear_name"] = <<non_linear_name(search)>>]

\* paths.model = model: model is a plain attribute
model_setattr(self, model) == [self EXCEPT !["model"] = model]

\* the property identifier: the object afterwards, the value returned and
\* whether the value was computed by this read
AbstractPaths_identifier(self) ==
    IF self["_identifier"] = None
    THEN LET id == Identifier(self["_search"], self["model"])
         IN [obj |-> [self EXCEPT !["_identifier"] = <<id>>],
             ret |-> id, computed |-> TRUE]
    ELSE [obj |-> self, ret |-> self["_identifier"][1], computed |-> FALSE]

\* the property output_path under make_path: the directory named by the
\* identifier under the output path, which is made if it is not there
output_path(self, dk) ==
    LET r == AbstractPaths_identifier(self)
    IN [obj |-> r.obj, ret |-> r.ret, computed |-> r.computed,
        disk |-> makedirs(dk, r.ret)]

PathsConstruct ==
    /\ \E o \in PathsIds \ DOMAIN owner :
         /\ owner' = Update(owner, [k \in {o} |-> AbstractPaths])
         /\ icall' = [icall EXCEPT !.op = "new", !.obj = o, !.field = "",
                                   !.ret = None, !.computed = FALSE]
    /\ UNCHANGED <<optvars, epvars, modelvars, flatvars, numvars, assertvars, dirvars>>

\* paths.search = v
PathsSetSearch ==
    /\ \E o \in DOMAIN owner, v \in Searches :
         /\ owner' = [owner EXCEPT ![o] = search_setter(@, v)]
         /\ icall' = [icall EXCEPT
                !.op = "set", !.obj = o, !.field = "search", !.ret = None,
                !.computed = FALSE]
    /\ UNCHANGED <<optvars, epvars, modelvars, flatvars, numvars, assertvars, dirvars>>

\* paths.model = v
PathsSetModel ==
    /\ \E o \in DOMAIN owner, v \in Models :
         /\ owner' = [owner EXCEPT ![o] = model_setattr(@, v)]
         /\ icall' = [icall EXCEPT
                !.op = "set", !.obj = o, !.field = "model", !.ret = None,
                !.computed = FALSE]
    /\ UNCHANGED <<optvars, epvars, modelvars, flatvars, numvars, assertvars, dirvars>>

\* paths.identifier
PathsIdentifier ==
    /\ \E o \in DOMAIN owner :
         LET r == AbstractPaths_identifier(owner[o])
         IN /\ owner' = [owner EXCEPT ![o] = r.obj]
            /\ icall' = [icall EXCEPT
                   !.op = "identifier", !.obj = o, !.field = "",
                   !.ret = <<r.ret>>, !.computed = r.computed]
    /\ UNCHANGED <<optvars, epvars, modelvars, flatvars, numvars, assertvars, dirvars>>

\* paths.output_path
PathsOutputPath ==
    /\ \E o \in DOMAIN owner :
         LET r == output_path(owner[o], disk)
         IN /\ owner' = [owner EXCEPT ![o] = r.obj]
            /\ disk' = r.disk
            /\ icall' = [icall EXCEPT
                   !.op = "output_path", !.obj = o, !.field = "",
                   !.ret = <<r.ret>>, !.computed = r.computed]
    /\ UNCHANGED <<upd, optvars, epvars, modelvars, flatvars, numvars, assertvars>>

PathsNext ==
    \/ PathsConstruct
    \/ PathsSetSearch
    \/ PathsSetModel
    \/ PathsIdentifier
    \/ PathsOutputPath

-----------------------------------------------------------------------------
(* model_object.py: ModelObject *)

\* the objects a caller constructs before it stops
MaxObjects == 3

\* ModelObject and classes that inherit its __init__, __eq__ and __hash__
Classes == {"ModelObject", "Assertion", "Prior"}

\* an object without an attribute id, as the other side of a comparison
NoId == [cls |-> "object", id |-> None]

\* an __init__ that reads the counter without advancing it
ModelObject_init_peek(counter, cls) ==
    [obj |-> [cls |-> cls, id |-> <<counter>>], idcount |-> counter]

\* ModelObject.__init__ with next(self._ids): _ids is found on ModelObject
\* for every class, no subclass having an _ids of its own
ModelObject_init(counter, cls) ==
    [obj |-> [cls |-> cls, id |-> <<counter>>], idcount |-> counter + 1]

\* ModelObject.__hash__
ModelObject_hash(self) == self.id[1]

\* ModelObject.__eq__: other.id raises AttributeError when other has no id
ModelObject_eq(self, other) ==
    IF other.id = None THEN FALSE ELSE self.id = other.id

NoModelCall == [op |-> "none", a |-> 0, b |-> 0, ret |-> <<>>]

\* _ids = itertools.count() when the class is defined
ModelIdle ==
    /\ idcount = 0
    /\ objects = <<>>
    /\ mcall = NoModelCall

\* cls()
ModelConstruct ==
    /\ Len(objects) < MaxObjects
    /\ \E cls \in Classes :
         LET r == ModelObject_init(idcount, cls)
         IN /\ objects' = Append(objects, r.obj)
            /\ idcount' = r.idcount
    /\ mcall' = NoModelCall
    /\ UNCHANGED <<optvars, epvars, flatvars, numvars, idvars, assertvars,
                   dirvars>>

\* objects[a] == objects[b], or objects[a] == <an object without id> when
\* b is 0
ModelEq ==
    /\ \E a \in 1..Len(objects), b \in 0..Len(objects) :
         mcall' = [op |-> "eq", a |-> a, b |-> b,
                   ret |-> <<ModelObject_eq(objects[a],
                               IF b = 0 THEN NoId ELSE objects[b])>>]
    /\ UNCHANGED <<idcount, objects, optvars, epvars, flatvars, numvars,
                   idvars, assertvars, dirvars>>

\* hash(objects[a])
ModelHash ==
    /\ \E a \in 1..Len(objects) :
         mcall' = [op |-> "hash", a |-> a, b |-> 0,
                   ret |-> <<ModelObject_hash(objects[a])>>]
    /\ UNCHANGED <<idcount, objects, optvars, epvars, flatvars, numvars,
                   idvars, assertvars, dirvars>>

ModelNext == ModelConstruct \/ ModelEq \/ ModelHash

LibIdle ==
    FlatIdle /\ NumIdle /\ IdIdle /\ AssertIdle /\ DirIdle /\ ModelIdle

-----------------------------------------------------------------------------
(* Specifications *)

\* the EP loop, with the mode finder out of the caller's hands
Init == EPInit /\ OptInit /\ LibIdle

Next == EPNext

Spec == Init /\ [][Next]_vars

\* the mode finder, with one idle optimiser
ModeInit ==
    /\ OptInit
    /\ heap = [i \in {1} |-> CHOOSE c \in InitContents : TRUE]
    /\ history = EmptyDict
    /\ cfg = [n_iter |-> 0, delta |-> 1, opt_kws |-> <<>>]
    /\ pc = "idle"
    /\ run = NoRun
    /\ last = NoUpdate
    /\ nupdates = 0
    /\ LibIdle

ModeNext == OptNext

ModeSpec == ModeInit /\ [][ModeNext]_vars

LsqNext == LsqConstruct \/ LsqResiduals \/ Discard
LsqSpec == ModeInit /\ [][LsqNext]_vars

ConstructNext == Construct \/ Discard
ConstructSpec == ModeInit /\ [][ConstructNext]_vars

\* the mode finder and the EP loop at rest
CoreIdle ==
    /\ OptInit
    /\ heap = [i \in {1} |-> CHOOSE c \in InitContents : TRUE]
    /\ history = EmptyDict
    /\ cfg = [n_iter |-> 0, delta |-> 1, opt_kws |-> <<>>]
    /\ pc = "idle"
    /\ run = NoRun
    /\ last = NoUpdate
    /\ nupdates = 0

\* a FlattenArrays object and its caller
FlatInit == CoreIdle /\ LibIdle

FlatSpec == FlatInit /\ [][FlatNext]_vars

\* the numerical helpers and their caller
NumInit == CoreIdle /\ LibIdle

NumSpec == NumInit /\ [][NumNext]_vars

DirInit ==
    CoreIdle /\ FlatIdle /\ NumIdle /\ IdIdle /\ AssertIdle /\ DirStart
    /\ ModelIdle
DirSpec == DirInit /\ [][DirNext]_vars

AssertInit == CoreIdle /\ LibIdle
AssertSpec == AssertInit /\ [][AssertNext]_vars

IdInit == CoreIdle /\ LibIdle
IdSpec == IdInit /\ [][IdNext]_vars

PathsInit == CoreIdle /\ LibIdle
PathsSpec == PathsInit /\ [][PathsNext]_vars

ModelInit == CoreIdle /\ LibIdle
ModelSpec == ModelInit /\ [][ModelNext]_vars

-----------------------------------------------------------------------------
(* Claims about the EP loop, checked under Spec *)

\* run has ended: it returned or it raised
RunOver == pc \in {"returned", "raised"}

\* the factor of the update has a free variable, so the solver was called
UpdateSolverRan ==
    from_approx(factor_approximation(heap[last.model_approx],
                                     last.factor)).free_vars # <<>>

\* what step has yielded in the current sweep
SweepYields ==
    SubSeq(run.yields, Len(run.yields) - run.k + 1, Len(run.yields))

\* C1: run with n_iter >= 1 over a non-empty factor list does not raise;
\* the first update of every sweep after the first is given the
\* approximation the last update of the sweep before produced; and run
\* returns the approximation produced by the last of n_iter x |factors|
\* updates.
C1_RunChainsSweeps ==
    (pc # "idle" /\ cfg.n_iter >= 1 /\ Len(StepFactors(run)) >= 1) =>
        /\ pc # "raised"
        /\ (pc = "inner" /\ run.k = 0 /\ run.i > 0) =>
               run.step_approx = run.new_approx[1]
        /\ pc = "returned" =>
               /\ Len(run.yields) = cfg.n_iter * Len(StepFactors(run))
               /\ run.ret = <<run.yields[Len(run.yields)][3]>>

\* C2: when run with n_iter >= 1 over a non-empty list of distinct factors
\* has ended, it has returned, history has exactly the keys (i, f) for i in
\* 0..n_iter-1 and f in the list, each entry is the approximation yielded
\* after that update, and the value returned is the last one yielded.
C2_HistoryAfterRun ==
    (RunOver /\ cfg.n_iter >= 1 /\ Len(StepFactors(run)) >= 1
       /\ Cardinality(Range(StepFactors(run))) = Len(StepFactors(run))) =>
        /\ pc = "returned"
        /\ DOMAIN history = (0..(cfg.n_iter - 1)) \X Range(StepFactors(run))
        /\ \A j \in 1..Len(run.yields) :
              history[<<run.yields[j][1], run.yields[j][2]>>] = run.yields[j][3]
        /\ run.ret = <<run.yields[Len(run.yields)][3]>>

\* C3: every factor update that step starts ends with a yield of (factor, new
\* approximation); within the sweep the yields follow the factor list in
\* order, and each update is given the approximation the update before it
\* produced (the caller's for the first).
C3_StepYieldsInOrder ==
    last.op = "step" =>
        /\ last.exc = "none"
        /\ run.k >= 1
        /\ \A j \in 1..run.k : SweepYields[j][2] = StepFactors(run)[j]
        /\ SweepYields[run.k][3] = last.val[1]
        /\ last.model_approx = IF run.k = 1 THEN run.model_approx
                               ELSE SweepYields[run.k - 1][3]

C5_RunDoesAllUpdates ==
    RunOver => nupdates = cfg.n_iter * Len(StepFactors(run))

\* C8: when the solver inside laplace_factor_approx reports non-convergence,
\* laplace_factor_approx returns a Status with success = False that
\* contains the solver's diagnostic message.
C8_LaplaceStatusKeepsFailure ==
    (last.op \in {"laplace", "step"} /\ UpdateSolverRan /\ ~last.success) =>
        /\ last.exc = "none"
        /\ ~last.status[1].success
        /\ \E j \in 1..Len(last.status[1].messages) :
              last.status[1].messages[j] = last.diag

-----------------------------------------------------------------------------
(* Claims about the mode finder, checked under ModeSpec *)

\* the OptFactor of the call has a free variable, so the solver was called
SolverRan ==
    /\ call.op \in {"maximise", "find_factor_mode"}
    /\ call.opt[1].free_vars # <<>>

\* the sum over the free variables v of J . Cov[v] . J^T for the
\* deterministic variable d
DetCov(covars, f, mode, free_vars, d) ==
    SeqSum([i \in 1..Len(free_vars) |->
        propagate_uncertainty(
            covars[free_vars[i]],
            FactorJacobian(f, mode, free_vars)[<<d, free_vars[i]>>]
        ).val[1].data[1]])

\* C6: when the solver reports non-convergence, maximise returns an
\* OptResult whose status has success = False and whose messages end with
\* the solver's diagnostic message.
C6_StatusRecordsNonConvergence ==
    (call.op = "maximise" /\ SolverRan /\ ~call.result[1].success) =>
        /\ out.exc = "none"
        /\ ~out.val[1].status.success
        /\ out.val[1].status.messages # <<>>
        /\ out.val[1].status.messages[Len(out.val[1].status.messages)]
               = Diagnostic(call.result[1])

\* C7: given a prior Status, the Status maximise produces has success =
\* (prior success AND the solver's success) and messages = the prior
\* messages followed by the solver's diagnostic message.
C7_StatusCombinesWithPrior ==
    (call.op = "maximise" /\ SolverRan /\ call.status # <<>>) =>
        /\ out.exc = "none"
        /\ out.val[1].status =
               Status(call.status[1].success /\ call.result[1].success,
                      call.status[1].messages
                          \o <<Diagnostic(call.result[1])>>)

\* C9: find_factor_mode with return_cov=True returns a covariance dict in
\* which every deterministic variable d has the sum over the free variables
\* v of propagate_uncertainty(covariance[v], jac[d, v]) and every free
\* variable keeps its block of the solver's inverse Hessian.
C9_DetCovAccumulated ==
    (call.op = "find_factor_mode" /\ call.return_cov /\ SolverRan) =>
        /\ out.exc = "none"
        /\ \A v \in Range(call.opt[1].free_vars) :
              out.val[1].hess_inv[v] =
                  unflatten(call.opt[1].param_shapes,
                            call.result[1].hess_inv, 0)[v]
        /\ \A d \in Range(FactorDeterministic(call.fa[1].factor)) :
              /\ d \in DOMAIN out.val[1].hess_inv
              /\ out.val[1].hess_inv[d].data =
                     <<DetCov(out.val[1].hess_inv, call.fa[1].factor,
                              out.val[1].mode, call.opt[1].free_vars, d)>>

\* C10: the mode find_factor_mode (return_cov=True) returns has a value for
\* every variable of the factor and every deterministic variable: the
\* solver's solution, reshaped, for the free ones, the message's mean for
\* the fixed ones, the factor's value at the mode for the deterministic.
C10_ModeIsComplete ==
    (call.op = "find_factor_mode" /\ call.return_cov /\ SolverRan) =>
        /\ out.exc = "none"
        /\ DOMAIN out.val[1].mode = FactorAllVariables(call.fa[1].factor)
        /\ \A v \in Range(FactorVariables(call.fa[1].factor)) :
              out.val[1].mode[v] =
                  IF call.fa[1].model_dist[v].fixed
                  THEN call.fa[1].model_dist[v].mean
                  ELSE unflatten(call.opt[1].param_shapes,
                                 call.result[1].x, 0)[v]
        /\ \A d \in Range(FactorDeterministic(call.fa[1].factor)) :
              out.val[1].mode[d] =
                  FactorCall(call.fa[1].factor,
                             out.val[1].mode).deterministic_values[d]

-----------------------------------------------------------------------------
(* Claims about FlattenArrays, checked under FlatSpec *)

\* the object still is the dict it was constructed from
FlatAsBuilt ==
    /\ fobj[1].keys = fcall.ctor[1].keys
    /\ fobj[1].shapes = fcall.ctor[1].shapes

\* x supplies, for every registered key, an array of the registered shape
FlatExact ==
    \A k \in Range(fobj[1].keys) :
        k \in DOMAIN fcall.x /\ fcall.x[k].shape = fobj[1].shapes[k]

\* C11: for every FlattenArrays built from a shape mapping and every x with
\* exactly the registered shapes, flatten returns the entries in
\* registration order and unflatten of that vector has the keys of the
\* mapping and gives back every entry of x, in its registered shape, an
\* entry of empty shape as a plain scalar.
C11_RoundTrip ==
    (fobj # <<>> /\ fcall.op \in {"flatten", "unflatten"}
       /\ FlatAsBuilt /\ FlatExact) =>
        /\ fcall.exc = "none"
        /\ fcall.val[1].data = Ravel(fobj[1].keys, fcall.x)
        /\ fcall.op = "unflatten" =>
              /\ DOMAIN fcall.back[1] = Range(fobj[1].keys)
              /\ \A k \in Range(fobj[1].keys) :
                    /\ fcall.back[1][k] = fcall.x[k]
                    /\ fobj[1].shapes[k] = <<>> =>
                           fcall.back[1][k].kind = "scalar"

\* C12: flatten raises and returns no vector whenever x lacks a registered
\* key or has, for a registered key, an array whose shape is not exactly
\* the registered one (the same number of elements in another shape
\* included).
C12_FlattenRejectsWrongShape ==
    (fobj # <<>> /\ fcall.op = "flatten" /\ ~FlatExact) =>
        /\ fcall.exc # "none"
        /\ fcall.val = <<>>

\* C12 witness: flatten was given, for a registered key, an array with the
\* right number of elements in the wrong shape, and raised AssertionError.
C12_Witness ==
    /\ fobj # <<>>
    /\ fcall.op = "flatten"
    /\ fcall.exc = "AssertionError"
    /\ \E k \in Range(fobj[1].keys) :
          /\ k \in DOMAIN fcall.x
          /\ fcall.x[k].shape # fobj[1].shapes[k]
          /\ Len(fcall.x[k].data) = Prod(fobj[1].shapes[k])

\* C13: at every point of a FlattenArrays object's lifetime its keys and
\* shapes are the ones given at construction, sizes[k] is the element count
\* of the shape of k, the index slices are contiguous from 0 in
\* registration order, and size, when read, is the sum of all sizes.
C13_ShapesFixedForLife ==
    fobj # <<>> =>
        /\ FlatAsBuilt
        /\ DOMAIN fobj[1].sizes = Range(fobj[1].keys)
        /\ \A k \in Range(fobj[1].keys) :
              fobj[1].sizes[k] = Prod(fobj[1].shapes[k])
        /\ \A i \in 1..Len(fobj[1].keys) :
              /\ fobj[1].inds[i].lo = IF i = 1 THEN 0 ELSE fobj[1].inds[i - 1].hi
              /\ fobj[1].inds[i].hi - fobj[1].inds[i].lo
                     = fobj[1].sizes[fobj[1].keys[i]]
        /\ fcall.op = "size" =>
              /\ fcall.exc = "none"
              /\ fcall.val[1] = SeqSum([i \in 1..Len(fobj[1].keys) |->
                                           fobj[1].sizes[fobj[1].keys[i]]])

-----------------------------------------------------------------------------
(* Claims about the numerical helpers, checked under NumSpec *)

\* the Jacobian has at least k = cov.ndim // 2 axes and its last k axes are
\* both the first k and the remaining axes of the covariance
TrailingAxesMatch(cov, jac) ==
    LET k == Len(cov.shape) \div 2
    IN  /\ Len(jac.shape) >= k
        /\ SubSeq(jac.shape, Len(jac.shape) - k + 1, Len(jac.shape))
               = SubSeq(cov.shape, 1, k)
        /\ SubSeq(jac.shape, Len(jac.shape) - k + 1, Len(jac.shape))
               = SubSeq(cov.shape, k + 1, Len(cov.shape))

\* C14: propagate_uncertainty raises AssertionError and returns nothing
\* whenever the trailing axes of the Jacobian differ from the first half or
\* from the second half of the covariance's shape (axes of size 1 are not
\* broadcast), and a call it accepts returns a tensor of shape det_shape +
\* det_shape, det_shape being the leading axes of the Jacobian.
C14_PropagateChecksShapes ==
    ncall.op = "propagate_uncertainty" =>
        LET cov == ncall.args[1]
            jac == ncall.args[2]
            k   == Len(cov.shape) \div 2
            det_shape == SubSeq(jac.shape, 1, Len(jac.shape) - k)
        IN  IF TrailingAxesMatch(cov, jac)
            THEN /\ ncall.exc = "none"
                 /\ ncall.val[1].shape = det_shape \o det_shape
                 /\ Len(ncall.val[1].data) = Prod(det_shape) * Prod(det_shape)
            ELSE /\ ncall.exc = "AssertionError"
                 /\ ncall.val = <<>>

\* C14 witness: a call was rejected whose Jacobian's trailing axes are the
\* first half of the covariance's shape but not the second, with the same
\* number of elements a size-1 broadcast would need.
C14_Witness ==
    /\ ncall.op = "propagate_uncertainty"
    /\ ncall.exc = "AssertionError"
    /\ Len(ncall.args[1].shape) = 2
    /\ Len(ncall.args[2].shape) = 2
    /\ ncall.args[2].shape[2] = ncall.args[1].shape[1]
    /\ ncall.args[1].shape[2] = 1
    /\ ncall.args[1].shape[1] = 2

\* C15: invpsilog raises ValueError, runs no Newton-Raphson iteration and
\* returns nothing whenever some element of its input is not strictly
\* negative (zero included), and never raises it for an all-negative input.
C15_InvpsilogRejectsNonNegative ==
    ncall.op = "invpsilog" =>
        LET c == ncall.args[1].data
        IN  IF \E i \in 1..Len(c) : c[i] >= 0
            THEN /\ ncall.exc = "ValueError"
                 /\ ncall.iters = 0
                 /\ ncall.val = <<>>
            ELSE ncall.exc # "ValueError"

\* C15 witness: invpsilog rejected an input whose only offending elements
\* are zeros.
C15_Witness ==
    /\ ncall.op = "invpsilog"
    /\ ncall.exc = "ValueError"
    /\ \E i \in 1..Len(ncall.args[1].data) : ncall.args[1].data[i] = 0
    /\ \A i \in 1..Len(ncall.args[1].data) : ncall.args[1].data[i] <= 0

\* C16: the shape parameters inv_beta_suffstats returns are never negative:
\* whenever the Newton-Raphson iterations leave a negative value a warning
\* is emitted and every returned value is the clamped one (at least the
\* fallback 0.5).
C16_BetaParametersClamped ==
    ncall.op = "inv_beta_suffstats" =>
        LET ab == ncall.args[2]
            a  == ncall.val[1].data
            b  == ncall.val[2].data
        IN  /\ \A r \in 1..Len(ab) : a[r] >= 0 /\ b[r] >= 0
            /\ (\E r \in 1..Len(ab) : ab[r][1] < 0 \/ ab[r][2] < 0) =>
                  /\ ncall.warned
                  /\ \A r \in 1..Len(ab) :
                        /\ a[r] = clip(ab)[r][1]
                        /\ b[r] = clip(ab)[r][2]

-----------------------------------------------------------------------------
(* Claims about IdentifierField *)

FieldsOf(o) == [f \in FieldNames |-> IdentifierField_get(owner[o], f)]

\* C17: assigning to an IdentifierField of an object leaves that object's
\* cached _identifier None, the first identifier read after an assignment
\* is computed by that read from the current field values and no cached
\* identifier is ever out of date, and reading a field returns the last
\* value assigned to it on that object, or None when none was assigned.
C17_FieldChangeResetsIdentifier ==
    /\ icall.op = "set" => owner[icall.obj]["_identifier"] = None
    /\ (icall.op = "identifier" /\ icall.was_dirty) => icall.computed
    /\ icall.op = "identifier" =>
          icall.ret = <<Identifier(FieldsOf(icall.obj)["search"],
                                   FieldsOf(icall.obj)["model"])>>
    /\ icall.op = "get" =>
          icall.ret = IF <<icall.obj, icall.field>> \in DOMAIN icall.assigned
                      THEN icall.assigned[<<icall.obj, icall.field>>]
                      ELSE None

\* a field of an object whose identifier had been read and cached was
\* assigned a different value, and the identifier was read again
C17_Witness ==
    /\ icall.op = "identifier"
    /\ icall.was_dirty
    /\ icall.computed
    /\ \E f \in FieldNames : <<icall.obj, f>> \in DOMAIN icall.assigned
                               /\ icall.assigned[<<icall.obj, f>>] # None
    /\ \E o \in DOMAIN owner \ {icall.obj} :
          owner[o]["_identifier"] # None
          /\ owner[o]["_identifier"] # owner[icall.obj]["_identifier"]

-----------------------------------------------------------------------------
(* Claims about Assertion *)

\* the value associated with an operand: the constant itself, or the value
\* arg_dict holds for the prior
Associated(operand) ==
    IF operand.kind = "prior" THEN acall.arg_dict[operand.v] ELSE operand.v

HasValue(operand) ==
    operand.kind = "prior" => operand.v \in DOMAIN acall.arg_dict

\* C18: a call of an Assertion whose operands both have a value raises
\* FitException exactly when the value of the lower operand is not lower
\* than the value of the greater operand, and returns normally otherwise.
C18_RaisesUnlessLower ==
    (/\ acall.op = "call"
     /\ HasValue(acall.self[1].lower)
     /\ HasValue(acall.self[1].greater)) =>
        IF Associated(acall.self[1].lower) < Associated(acall.self[1].greater)
        THEN acall.exc = ""
        ELSE acall.exc = "FitException"

-----------------------------------------------------------------------------
(* Claims about update_directory_identifiers *)

\* C19: when update_directory_identifiers has returned, for every output
\* every file that was in the directory of its old identifier before the
\* call exists in the directory of its recomputed identifier, and that
\* directory holds the re-saved search.
C19_NoResultLost ==
    upd.pc = "done" =>
        \A dir \in DOMAIN upd.targets :
            /\ upd.targets[dir] \in DOMAIN disk
            /\ \A p \in DOMAIN upd.before[dir] :
                  p \in DOMAIN disk[upd.targets[dir]]
            /\ SearchPickle \in DOMAIN disk[upd.targets[dir]]
            /\ disk[upd.targets[dir]][SearchPickle].saved

-----------------------------------------------------------------------------
(* Claims about the tunables of LaplaceOptimiser *)

\* C20: every factor update made by LaplaceOptimiser.step is given the
\* optimiser's delta as its damping and the optimiser's opt_kws as the
\* options of the mode finder's optimizer call, and nothing else receives
\* either of them.
C20_TunablesReachTheirParameters ==
    last.op = "step" =>
        /\ last.args.delta = cfg.delta
        /\ last.args.status = <<>>
        /\ last.maximise_kws = cfg.opt_kws

-----------------------------------------------------------------------------
(* Claims about the construction of an OptFactor *)

\* the free variable that owns element i (1-based) of the flattened vector
OwnerOf(self, i) ==
    CHOOSE k \in Range(self.free_vars) :
        \E j \in 1..Len(self.param_shapes.keys) :
            /\ self.param_shapes.keys[j] = k
            /\ inds(self.param_shapes, j).lo < i
            /\ i <= inds(self.param_shapes, j).hi

\* C21: from_approx builds an OptFactor whose bounds have one (lower, upper)
\* entry per element of the flattened parameter vector, entry i being the
\* support of the free variable that owns element i.
C21_BoundsPerElement ==
    (call.op = "construct" /\ call.kwargs.keys = <<>>) =>
        /\ out.exc = "none"
        /\ Len(call.opt[1].bounds) = size(call.opt[1].param_shapes)
        /\ \A i \in 1..Len(call.opt[1].bounds) :
              <<call.opt[1].bounds[i]>> =
                  call.fa[1].model_dist[OwnerOf(call.opt[1], i)].support[1]

\* the variables of the factor whose message is a FixedMessage
FixedOf(fa) ==
    {v \in Range(FactorVariables(fa.factor)) : fa.model_dist[v].fixed}

\* C28: from_approx makes exactly the factor's variables with a FixedMessage
\* fixed, each at its message's mean, and exactly the other variables of
\* the factor free; no variable is both, and every free variable has an
\* entry in the bounds dict.
C28_FixedFreePartition ==
    call.op = "construct" =>
        /\ DOMAIN call.opt[1].fixed_kws = FixedOf(call.fa[1])
        /\ \A v \in FixedOf(call.fa[1]) :
              call.opt[1].fixed_kws[v] = call.fa[1].model_dist[v].mean
        /\ Range(call.opt[1].free_vars) =
              Range(FactorVariables(call.fa[1].factor)) \ FixedOf(call.fa[1])
        /\ Range(call.opt[1].free_vars) \cap DOMAIN call.opt[1].fixed_kws = {}
        /\ Range(call.opt[1].free_vars) \subseteq
              DOMAIN call.opt[1].param_bounds

-----------------------------------------------------------------------------
(* Claims about OptFactor.maximise, checked under ModeSpec *)

\* C22: the start point of maximise has one entry per free variable, the
\* caller's value where arrays_dict has one and a draw from the variable's
\* message otherwise, and a draw is made once for each free variable
\* without a supplied value and for no other variable.
C22_StartPointDrawsOnlyMissing ==
    call.op = "maximise" =>
        /\ DOMAIN out.p0 = Range(call.opt[1].free_vars)
        /\ \A v \in DOMAIN out.p0 :
              out.p0[v] = IF v \in DOMAIN call.arrays_dict
                          THEN call.arrays_dict[v] ELSE call.sample[v]
        /\ Range(out.drawn) =
              Range(call.opt[1].free_vars) \ DOMAIN call.arrays_dict
        /\ Len(out.drawn) = Cardinality(Range(out.drawn))

\* C24: when maximise has ended, by returning or by raising, sign has the
\* value it had before the call, so the OptFactor gives a vector the same
\* value as before.
C24_SignRestored ==
    call.op = "maximise" =>
        /\ opt[1].sign = call.opt[1].sign
        /\ OptFactor_call(opt[1], 1) = OptFactor_call(call.opt[1], 1)

\* C25: after maximise the arrays_dict the caller passed in has the keys
\* and values it had before the call.
C25_StartValuesKept ==
    call.op = "maximise" => out.arrays_dict = call.arrays_dict

-----------------------------------------------------------------------------
(* Claims about the residuals of LeastSquaresOpt *)

\* the value of the variable v when the parameters are the vector arr: the
\* free parameter, or the factor's deterministic output
ValueAt(self, arr, v) ==
    IF v \in Range(self.param_shapes.keys)
    THEN unflatten(self.param_shapes, arr, 0)[v]
    ELSE FactorCall(self.factor_approx.factor,
                    Update(unflatten(self.param_shapes, arr, 0),
                           self.fixed_kws)).deterministic_values[v]

\* C23: with opt_only not given, the residual vector is computed without an
\* exception and consists, in order, of one block for every variable whose
\* cavity message is not a FixedMessage and of no other block; the block of
\* a variable is (its value - the cavity mean) / the cavity scale.
C23_ResidualBlocks ==
    call.op = "residuals" =>
        /\ Range(opt[1].opt_only) =
              {v \in FactorAllVariables(call.fa[1].factor) :
                  ~CavityOf(all_cavity_dist(call.fa[1]), v).fixed}
        /\ out.exc = "none"
        /\ Len(out.val[1].data) = size(opt[1].resid_shapes)
        /\ \A j \in 1..Len(opt[1].opt_only) :
              SubSeq(out.val[1].data, inds(opt[1].resid_shapes, j).lo + 1,
                     inds(opt[1].resid_shapes, j).hi) =
                 Standardise(
                     ValueAt(opt[1], call.result[1], opt[1].opt_only[j]),
                     CavityOf(all_cavity_dist(call.fa[1]),
                              opt[1].opt_only[j]).mean,
                     CavityOf(all_cavity_dist(call.fa[1]),
                              opt[1].opt_only[j]).scale).data

-----------------------------------------------------------------------------
(* Claims about LaplaceOptimiser.run and its history *)

\* C26: run ends by returning an approximation, whatever n_iter and the
\* factor list are; when the sweeps yielded no update, what it returns is the
\* approximation it was given, and it does not raise.
C26_RunReturnsWithoutUpdates ==
    pc \in {"returned", "raised"} /\ run.yields = <<>> =>
        /\ pc = "returned"
        /\ run.exc = "none"
        /\ run.ret = <<run.model_approx>>

-----------------------------------------------------------------------------
(* Claims about AbstractPaths, checked under PathsSpec *)

\* C29: what a read of identifier, or of output_path, gives is the identifier
\* of the search and the model the paths object has at that moment, also
\* after either was assigned anew since the identifier was first read.
C29_IdentifierOfCurrentFields ==
    icall.op \in {"identifier", "output_path"} =>
        icall.ret = <<Identifier(owner[icall.obj]["_search"],
                                 owner[icall.obj]["model"])>>

-----------------------------------------------------------------------------
(* Claims about ModelObject, checked under ModelSpec *)

\* C30: the ids of the objects constructed so far strictly increase in
\* construction order, whatever their classes; a comparison of two of them
\* is True exactly when their ids are equal, which is exactly when they are
\* the same object, and then their hashes are equal; and a comparison with
\* an object that has no id is False.
C30_IdsUniqueAndEqById ==
    /\ \A i, j \in 1..Len(objects) :
          i < j => objects[i].id[1] < objects[j].id[1]
    /\ mcall.op = "eq" /\ mcall.b # 0 =>
          /\ mcall.ret[1] <=> objects[mcall.a].id = objects[mcall.b].id
          /\ mcall.ret[1] <=> mcall.a = mcall.b
          /\ mcall.ret[1] => ModelObject_hash(objects[mcall.a])
                               = ModelObject_hash(objects[mcall.b])
    /\ mcall.op = "eq" /\ mcall.b = 0 => mcall.ret = <<FALSE>>

\* objects of two classes have been compared with each other, and one of
\* them with an object that has no id
C30_Witness ==
    /\ Len(objects) = MaxObjects
    /\ objects[1].cls # objects[2].cls
    /\ mcall.op = "eq"
    /\ mcall.a = 2
    /\ mcall.b = 1
    /\ mcall.ret = <<FALSE>>

====
